---- MODULE Spec2Model ----
(***************************************************************************)
(* The parallel multi-provider research orchestrator of dpsia-lambda:      *)
(* the three provider clients (PerplexityProvider, GeminiProvider,         *)
(* GrokProvider), conductResearch and its aggregation, generateQueries,    *)
(* formatResearchForPrompt, the Lambda handler and getSecrets.  handler is *)
(* modelled with the stages it awaits as its environment: each of them     *)
(* resolves or rejects.                                                    *)
(*                                                                         *)
(* One action is one turn of the Node.js event loop: the synchronous code  *)
(* that runs from the resumption of an async function up to its next       *)
(* await (or its return).  Promises settle in the environment: fetch, the  *)
(* body readers response.text()/response.json(), and the timeout timers.   *)
(*                                                                         *)
(* Strings whose characters matter (source citations, vendor names, the    *)
(* query templates, request fields) are sequences of one-character         *)
(* strings; opaque texts (contents, error messages) are TLC strings.       *)
(* durationMs/totalDurationMs are wall-clock readings no claim depends on  *)
(* and are left out of the records.                                        *)
(***************************************************************************)
EXTENDS Integers, Sequences, FiniteSets, TLC

(***************************************************************************)
(* Bounds of the model (not program constants).                            *)
(***************************************************************************)
\* How many response bodies the network keeps in transit at the same time
\* (headers delivered, body still outstanding).  A response whose body is
\* not kept in transit is delivered whole: headers and body in one turn.
MaxReading == 1

\* How many times generateQueries is called with the same arguments.
MaxGenerate == 2

\* How many results the argument of formatResearchForPrompt holds at most.
MaxResults == 3

\* getSecrets is called at most MaxGets times, during MaxPeriods times the
\* time to live of its cache.
MaxGets == 3
MaxPeriods == 2

(***************************************************************************)
(* JavaScript values                                                       *)
(***************************************************************************)
\* The value of an absent optional field (error?: string) or object key.
Undefined == "<undefined>"

\* Mutant of Coalesce: the default is forgotten.
CoalesceMissing(a, b) == a

\* a ?? b
Coalesce(a, b) == IF a = Undefined THEN b ELSE a

\* JSON values that can stand where the code expects string[]: tagged, so
\* that a number or a string in place of an array can be told apart.
JString(chars) == [t |-> "string", items |-> chars]
JNumber == [t |-> "number", items |-> <<>>]
JArray(items) == [t |-> "array", items |-> items]
JUndefined == [t |-> "undefined", items |-> <<>>]

\* data.citations ?? []   (perplexity.ts:56)
CoalesceArray(v) == IF v.t = "undefined" THEN JArray(<<>>) ELSE v

(***************************************************************************)
(* String.prototype.trim and String.prototype.toLowerCase on sequences of  *)
(* characters.                                                             *)
(***************************************************************************)
UpperCase == <<"A", "B", "C", "D", "E", "F", "G", "H", "I", "J", "K", "L", "M",
               "N", "O", "P", "Q", "R", "S", "T", "U", "V", "W", "X", "Y", "Z">>
LowerCase == <<"a", "b", "c", "d", "e", "f", "g", "h", "i", "j", "k", "l", "m",
               "n", "o", "p", "q", "r", "s", "t", "u", "v", "w", "x", "y", "z">>

\* White space and line terminators that trim() strips (the ASCII ones).
WhiteSpace == {" ", "\t", "\n", "\r", "\f"}

ToLowerChar(c) ==
    IF \E i \in 1..Len(UpperCase) : UpperCase[i] = c
    THEN LowerCase[CHOOSE i \in 1..Len(UpperCase) : UpperCase[i] = c]
    ELSE c

toLowerCase(s) == [i \in 1..Len(s) |-> ToLowerChar(s[i])]

RECURSIVE TrimStart(_)
TrimStart(s) ==
    IF s # <<>> /\ Head(s) \in WhiteSpace THEN TrimStart(Tail(s)) ELSE s

RECURSIVE TrimEnd(_)
TrimEnd(s) ==
    IF s # <<>> /\ s[Len(s)] \in WhiteSpace
    THEN TrimEnd(SubSeq(s, 1, Len(s) - 1))
    ELSE s

trim(s) == TrimEnd(TrimStart(s))

\* Mutant of Normalise: the trim() is forgotten.
NormaliseNoTrim(s) == toLowerCase(s)

\* src.trim().toLowerCase()   (orchestrator.ts:68)
Normalise(s) == toLowerCase(trim(s))

(***************************************************************************)
(* Research results (types.ts ResearchResult)                              *)
(***************************************************************************)
ResearchResult(provider, query, content, sources, success, error) ==
    [provider |-> provider, query |-> query, content |-> content,
     sources |-> sources, success |-> success, error |-> error]

\* Mutant of FailedResult: the failed result leaves its sources out.
FailedResultNoSources(provider, query, error) ==
    ResearchResult(provider, query, "", JUndefined, FALSE, error)

\* The failed result every provider builds in its !response.ok branch and in
\* its catch block.
FailedResult(provider, query, error) ==
    ResearchResult(provider, query, "", JArray(<<>>), FALSE, error)

\* What an async function's promise settles to.
Fulfilled(value) == [status |-> "fulfilled", value |-> value, reason |-> Undefined]
Rejected(value, reason) == [status |-> "rejected", value |-> value, reason |-> reason]
Pending(value) == [status |-> "pending", value |-> value, reason |-> Undefined]

\* What a block of synchronous code does: completes with a value or throws.
Returns(value) == [threw |-> FALSE, value |-> value, message |-> Undefined]
Throws(value, message) == [threw |-> TRUE, value |-> value, message |-> message]


(***************************************************************************)
(* Texts.  A text the code builds with a template literal is the sequence  *)
(* of the fragments it concatenates; an absent error?: string has none.    *)
(***************************************************************************)
NoError == <<>>

\* err instanceof Error ? err.message : String(err)
ErrorText(message) == <<message>>

\* `HTTP ${response.status}: ${errorText}`
HttpErrorText(status, errorText) == <<"HTTP ", status, ": ", errorText>>

(***************************************************************************)
(* Providers, queries and the task list                                    *)
(***************************************************************************)
\* The providers array of conductResearch, in its order.
providers == <<"Perplexity", "Gemini", "Grok">>

\* generateQueries: three queries for each provider.  The query texts are
\* opaque here: each stands for the template of that slot.
queries ==
    [Perplexity |-> <<"perplexity[0]", "perplexity[1]", "perplexity[2]">>,
     Gemini     |-> <<"gemini[0]", "gemini[1]", "gemini[2]">>,
     Grok       |-> <<"grok[0]", "grok[1]", "grok[2]">>]

Task(provider, query) == [provider |-> provider, query |-> query]

\* Mutant of BuildTasks: the two loops are nested the other way round.
BuildTasksQueryMajor(ps) ==
    [n \in 1..(3 * Len(ps)) |->
        Task(ps[((n - 1) % Len(ps)) + 1],
             queries[ps[((n - 1) % Len(ps)) + 1]][((n - 1) \div Len(ps)) + 1])]

\* for (const {provider, queries} of providers) for (const query of queries)
\*   tasks.push({provider, query})
RECURSIVE BuildTasks(_)
BuildTasks(ps) ==
    IF ps = <<>> THEN <<>>
    ELSE [k \in 1..Len(queries[Head(ps)]) |-> Task(Head(ps), queries[Head(ps)][k])]
         \o BuildTasks(Tail(ps))

\* One direct call of each provider client's search (no orchestrator).
DirectCalls == [i \in 1..Len(providers) |-> Task(providers[i], queries[providers[i]][1])]

(***************************************************************************)
(* The environment: what the three HTTP endpoints can answer               *)
(***************************************************************************)
\* The kinds of misbehaviour of the network and of the endpoints:
\*   network   fetch rejects (DNS, connection reset)
\*   timeout   the timeout elapses while calls are outstanding
\*   http      a response with a non-2xx status
\*   stream    the body stream fails while response.text()/json() reads it
\*   parse     a 2xx body that is not JSON
\*   null      a 2xx body that is the JSON value null
\*   shape     a 2xx JSON object without the fields the client reads
\*   citations a 2xx Perplexity body whose citations is not a string array
\* and one kind of variety in well-formed answers:
\*   varied    Perplexity bodies differ in their citations
FaultKinds ==
    {"network", "timeout", "http", "stream", "parse", "null", "shape", "citations",
     "varied"}

NetworkErrorMessage == "fetch failed"
AbortMessage == "This operation was aborted"
StreamErrorMessage == "terminated"
ParseErrorMessage == "Unexpected token < in JSON at position 0"
NullErrorMessage == "Cannot read properties of null"
NotIterableMessage == "r.sources is not iterable"
NotAFunctionMessage == "src.trim is not a function"

HttpStatuses == {"500"}
ErrorBodies == {"Internal Server Error"}

\* Citation strings, as sequences of characters.
ExampleCom ==
    <<"h", "t", "t", "p", "s", ":", "/", "/",
      "e", "x", "a", "m", "p", "l", "e", ".", "c", "o", "m">>
\* "https://EXAMPLE.com/ "
ExampleComUpperSlash ==
    <<"h", "t", "t", "p", "s", ":", "/", "/",
      "E", "X", "A", "M", "P", "L", "E", ".", "c", "o", "m", "/", " ">>
\* "https://EXAMPLE.com "
ExampleComUpper ==
    <<"h", "t", "t", "p", "s", ":", "/", "/",
      "E", "X", "A", "M", "P", "L", "E", ".", "c", "o", "m", " ">>

\* The citations array of the plain Perplexity answer.
PlainCitations == JArray(<<JString(ExampleCom)>>)

\* The citations a well-behaved Perplexity endpoint answers with when its
\* answers vary (JUndefined: a body without the citations key).
CitationLists ==
    {JUndefined,
     JArray(<<JString(ExampleCom)>>),
     JArray(<<JString(ExampleComUpperSlash)>>),
     JArray(<<JString(ExampleComUpper)>>),
     JArray(<<JString(ExampleComUpper), JString(ExampleCom)>>)}

\* citations values that are not string arrays.
BadCitations == {JNumber, JArray(<<JString(ExampleCom), JNumber>>)}

\* A parsed response body: the JSON value null, or an object of which the
\* clients read choices[0].message.content (Perplexity, Grok),
\* candidates[0].content.parts[0].text (Gemini) and citations (Perplexity).
Body(isNull, choices, candidates, citations) ==
    [isNull |-> isNull, choices |-> choices, candidates |-> candidates,
     citations |-> citations]

NullBody == Body(TRUE, Undefined, Undefined, JUndefined)
EmptyObject == Body(FALSE, Undefined, Undefined, JUndefined)

\* The bodies the endpoint of provider p can answer with under faults f.
Bodies(p, f) ==
    (CASE p = "Perplexity" ->
            {Body(FALSE, "Perplexity content", Undefined, c) :
                c \in {PlainCitations}
                      \cup (IF "varied" \in f THEN CitationLists ELSE {})
                      \cup (IF "citations" \in f THEN BadCitations ELSE {})}
       [] p = "Gemini" -> {Body(FALSE, Undefined, "Gemini content", JUndefined)}
       [] OTHER -> {Body(FALSE, "Grok content", Undefined, JUndefined)})
    \cup (IF "null" \in f THEN {NullBody} ELSE {})
    \cup (IF "shape" \in f THEN {EmptyObject} ELSE {})

(***************************************************************************)
(* The provider clients: the code of search after each await               *)
(***************************************************************************)
\* perplexity.ts:55-56
PerplexityExtract(data) ==
    IF data.isNull THEN Throws([content |-> "", sources |-> JArray(<<>>)], NullErrorMessage)
    ELSE Returns([content |-> Coalesce(data.choices, ""),
                  sources |-> CoalesceArray(data.citations)])

\* grok.ts:60 and 66
GrokExtract(data) ==
    IF data.isNull THEN Throws([content |-> "", sources |-> JArray(<<>>)], NullErrorMessage)
    ELSE Returns([content |-> Coalesce(data.choices, ""), sources |-> JArray(<<>>)])

\* gemini.ts:145 and 151
GeminiExtract(data) ==
    IF data.isNull THEN Throws([content |-> "", sources |-> JArray(<<>>)], NullErrorMessage)
    ELSE Returns([content |-> Coalesce(data.candidates, ""), sources |-> JArray(<<>>)])

Extract(p, data) ==
    CASE p = "Perplexity" -> PerplexityExtract(data)
      [] p = "Gemini" -> GeminiExtract(data)
      [] OTHER -> GrokExtract(data)

\* The code after `await response.json()` resolved with data: extraction and
\* the success result.
OnJson(task, data) ==
    LET x == Extract(task.provider, data)
    IN  IF x.threw THEN Throws(FailedResult(task.provider, task.query, NoError), x.message)
        ELSE Returns(ResearchResult(task.provider, task.query, x.value.content,
                                    x.value.sources, TRUE, NoError))

\* Mutant of OnErrorText: the !response.ok branch is missing, the error body
\* is taken for the answer.
OnErrorTextAsAnswer(task, status, errorText) ==
    Returns(ResearchResult(task.provider, task.query, errorText, JArray(<<>>), TRUE, NoError))

\* The code after `await response.text()` resolved in the !response.ok branch.
OnErrorText(task, status, errorText) ==
    Returns(FailedResult(task.provider, task.query, HttpErrorText(status, errorText)))

\* An await inside the try block whose promise rejected with message.
OnRejection(task, message) ==
    Throws(FailedResult(task.provider, task.query, NoError), message)

\* Mutant of SearchSettles: no catch block, a thrown error escapes search.
SearchSettlesNoCatch(task, block) ==
    IF block.threw
    THEN Rejected(FailedResult(task.provider, task.query, NoError), block.message)
    ELSE Fulfilled(block.value)

\* try { ... } catch (err) { return {..., success: false, error: ...} } around
\* the whole body of search: what the promise of search settles to when the
\* block completed or threw.
SearchSettles(task, block) ==
    IF block.threw
    THEN Fulfilled(FailedResult(task.provider, task.query, ErrorText(block.message)))
    ELSE Fulfilled(block.value)


(***************************************************************************)
(* conductResearch: collection and aggregation (pure parts)                *)
(***************************************************************************)
\* Mutant of Collect: the rejected outcomes are filtered out.
CollectFulfilledOnly(settled, taskList) ==
    LET kept == SelectSeq(settled, LAMBDA outcome : outcome.status = "fulfilled")
    IN  [i \in 1..Len(kept) |-> kept[i].value]

\* settled.map((outcome, i) => outcome.status === 'fulfilled' ? outcome.value
\*                                                           : {synthesized})
Collect(settled, taskList) ==
    [i \in 1..Len(settled) |->
        IF settled[i].status = "fulfilled" THEN settled[i].value
        ELSE FailedResult(taskList[i].provider, taskList[i].query,
                          ErrorText(settled[i].reason))]

\* Mutant of AddSource: the normalised string is pushed, not the original.
AddSourceNormalised(acc, src) ==
    IF acc.threw THEN acc
    ELSE IF src.t # "string" THEN [acc EXCEPT !.threw = TRUE, !.message = NotAFunctionMessage]
    ELSE LET normalised == Normalise(src.items)
         IN  IF normalised \notin acc.seen
             THEN [acc EXCEPT !.seen = @ \cup {normalised},
                              !.allSources = Append(@, normalised)]
             ELSE acc

\* The body of the inner loop: one source, given what was seen before.
\* acc is [threw, seen, allSources].
AddSource(acc, src) ==
    IF acc.threw THEN acc
    ELSE IF src.t # "string" THEN [acc EXCEPT !.threw = TRUE, !.message = NotAFunctionMessage]
    ELSE LET normalised == Normalise(src.items)
         IN  IF normalised \notin acc.seen
             THEN [acc EXCEPT !.seen = @ \cup {normalised},
                              !.allSources = Append(@, src.items)]
             ELSE acc

RECURSIVE AddSources(_, _)
AddSources(acc, srcs) ==
    IF srcs = <<>> THEN acc
    ELSE AddSources(AddSource(acc, Head(srcs)), Tail(srcs))

\* for (const r of results) for (const src of r.sources) {...}: iterating a
\* value that is no array throws a TypeError.
RECURSIVE DedupSources(_, _)
DedupSources(acc, results) ==
    IF results = <<>> \/ acc.threw THEN acc
    ELSE IF Head(results).sources.t # "array"
         THEN [acc EXCEPT !.threw = TRUE, !.message = NotIterableMessage]
    ELSE DedupSources(AddSources(acc, Head(results).sources.items), Tail(results))

\* [...new Set(xs)]: the distinct elements, in first-seen order.
RECURSIVE Distinct(_, _)
Distinct(xs, acc) ==
    IF xs = <<>> THEN acc
    ELSE Distinct(Tail(xs),
                  IF \E i \in 1..Len(acc) : acc[i] = Head(xs) THEN acc
                  ELSE Append(acc, Head(xs)))

IsSuccess(r) == r.success
IsFailure(r) == ~r.success

\* Mutant of SuccessCount: the filter is forgotten.
SuccessCountUnfiltered(results) == Len(results)

\* results.filter(r => r.success).length
SuccessCount(results) == Len(SelectSeq(results, IsSuccess))

\* results.filter(r => !r.success).length
FailureCount(results) == Len(SelectSeq(results, IsFailure))

\* Mutant of ProvidersUsed: the filter on success is forgotten.
ProvidersUsedUnfiltered(results) ==
    Distinct([i \in 1..Len(results) |-> results[i].provider], <<>>)

\* [...new Set(results.filter(r => r.success).map(r => r.provider))]
ProvidersUsed(results) ==
    LET ok == SelectSeq(results, IsSuccess)
    IN  Distinct([i \in 1..Len(ok) |-> ok[i].provider], <<>>)

\* The code of conductResearch after `await Promise.allSettled(...)`: it
\* returns the aggregated results, or throws out of the aggregation loop.
Aggregate(settled, taskList) ==
    LET results == Collect(settled, taskList)
        dedup == DedupSources([threw |-> FALSE, message |-> Undefined,
                               seen |-> {}, allSources |-> <<>>], results)
        value == [results |-> results,
                  providersUsed |-> ProvidersUsed(results),
                  allSources |-> dedup.allSources,
                  successCount |-> SuccessCount(results),
                  failureCount |-> FailureCount(results)]
    IN  IF dedup.threw THEN Throws(value, dedup.message) ELSE Returns(value)


(***************************************************************************)
(* generateQueries (queries.ts), on strings as sequences of characters     *)
(***************************************************************************)
\* s contains sub as a substring (String.prototype.includes).
Contains(s, sub) ==
    \E i \in 0..(Len(s) - Len(sub)) : SubSeq(s, i + 1, i + Len(sub)) = sub

EndsWith(s, sub) ==
    Len(sub) <= Len(s) /\ SubSeq(s, Len(s) - Len(sub) + 1, Len(s)) = sub

StartsWith(s, sub) == Len(sub) <= Len(s) /\ SubSeq(s, 1, Len(sub)) = sub

\* The alternatives of (Inc\.|LLC|Ltd\.?|Corp\.?|GmbH|B\.V\.) under the i
\* flag, in lower case.
LegalSuffixes ==
    {<<"i", "n", "c", ".">>, <<"l", "l", "c">>, <<"l", "t", "d">>,
     <<"l", "t", "d", ".">>, <<"c", "o", "r", "p">>, <<"c", "o", "r", "p", ".">>,
     <<"g", "m", "b", "h">>, <<"b", ".", "v", ".">>}

\* Mutant of StripLegalSuffix: the i flag is missing ("Inc." is the only
\* alternative that is written here the way the pattern spells it).
StripLegalSuffixCaseSensitive(s) ==
    IF EndsWith(s, <<"I", "n", "c", ".">>)
    THEN LET rest == TrimEnd(SubSeq(s, 1, Len(s) - 4))
         IN  IF rest # <<>> /\ rest[Len(rest)] = ","
             THEN SubSeq(rest, 1, Len(rest) - 1)
             ELSE rest
    ELSE s

\* vendorName.replace(/,?\s*(Inc\.|LLC|Ltd\.?|Corp\.?|GmbH|B\.V\.)$/i, ''):
\* the one alternative that ends the string, the white space before it and
\* one comma before that are removed (the leftmost match); a string that
\* ends in none of the alternatives is left as it is.
StripLegalSuffix(s) ==
    LET matching == {k \in LegalSuffixes : EndsWith(toLowerCase(s), k)}
    IN  IF matching = {} THEN s
        ELSE LET k == CHOOSE x \in matching : \A y \in matching : Len(y) <= Len(x)
                 rest == TrimEnd(SubSeq(s, 1, Len(s) - Len(k)))
             IN  IF rest # <<>> /\ rest[Len(rest)] = ","
                 THEN SubSeq(rest, 1, Len(rest) - 1)
                 ELSE rest

\* const shortName = vendorName.replace(...).trim()
ShortName(vendorName) == trim(StripLegalSuffix(vendorName))

\* Mutant of ServiceContext: the services text is never interpolated.
ServiceContextDropped(servicesUsed) == <<>>

\* const serviceContext = servicesUsed ? ` ${servicesUsed}` : ''
\* (undefined and the empty string are falsy).
ServiceContext(servicesUsed) ==
    IF servicesUsed.t = "undefined" \/ servicesUsed.items = <<>> THEN <<>>
    ELSE <<" ">> \o servicesUsed.items

\* " security certifications ISO 27001 SOC 2 Type II 2025 2026"
Perplexity1 ==
    <<" ", "s", "e", "c", "u", "r", "i", "t", "y", " ", "c", "e", "r", "t",
      "i", "f", "i", "c", "a", "t", "i", "o", "n", "s", " ", "I", "S", "O",
      " ", "2", "7", "0", "0", "1", " ", "S", "O", "C", " ", "2", " ", "T",
      "y", "p", "e", " ", "I", "I", " ", "2", "0", "2", "5", " ", "2", "0",
      "2", "6">>

\* " data breach incidents security vulnerabilities CVE history"
Perplexity2 ==
    <<" ", "d", "a", "t", "a", " ", "b", "r", "e", "a", "c", "h", " ", "i",
      "n", "c", "i", "d", "e", "n", "t", "s", " ", "s", "e", "c", "u", "r",
      "i", "t", "y", " ", "v", "u", "l", "n", "e", "r", "a", "b", "i", "l",
      "i", "t", "i", "e", "s", " ", "C", "V", "E", " ", "h", "i", "s", "t",
      "o", "r", "y">>

\* " GDPR compliance data processing agreement privacy policy"
Perplexity3 ==
    <<" ", "G", "D", "P", "R", " ", "c", "o", "m", "p", "l", "i", "a", "n",
      "c", "e", " ", "d", "a", "t", "a", " ", "p", "r", "o", "c", "e", "s",
      "s", "i", "n", "g", " ", "a", "g", "r", "e", "e", "m", "e", "n", "t",
      " ", "p", "r", "i", "v", "a", "c", "y", " ", "p", "o", "l", "i", "c",
      "y">>

\* " security posture assessment encryption access controls infrastruc..."
Gemini1 ==
    <<" ", "s", "e", "c", "u", "r", "i", "t", "y", " ", "p", "o", "s", "t",
      "u", "r", "e", " ", "a", "s", "s", "e", "s", "s", "m", "e", "n", "t",
      " ", "e", "n", "c", "r", "y", "p", "t", "i", "o", "n", " ", "a", "c",
      "c", "e", "s", "s", " ", "c", "o", "n", "t", "r", "o", "l", "s", " ",
      "i", "n", "f", "r", "a", "s", "t", "r", "u", "c", "t", "u", "r", "e",
      ".", " ", "A", "n", "a", "l", "y", "s", "e", " ", "t", "h", "e", "i",
      "r", " ", "s", "e", "c", "u", "r", "i", "t", "y", " ", "a", "r", "c",
      "h", "i", "t", "e", "c", "t", "u", "r", "e", ",", " ", "e", "n", "c",
      "r", "y", "p", "t", "i", "o", "n", " ", "s", "t", "a", "n", "d", "a",
      "r", "d", "s", ",", " ", "a", "n", "d", " ", "a", "c", "c", "e", "s",
      "s", " ", "c", "o", "n", "t", "r", "o", "l", " ", "m", "e", "c", "h",
      "a", "n", "i", "s", "m", "s", ".">>

\* " vendor risk compliance status regulatory actions enforcement. Eva..."
Gemini2 ==
    <<" ", "v", "e", "n", "d", "o", "r", " ", "r", "i", "s", "k", " ", "c",
      "o", "m", "p", "l", "i", "a", "n", "c", "e", " ", "s", "t", "a", "t",
      "u", "s", " ", "r", "e", "g", "u", "l", "a", "t", "o", "r", "y", " ",
      "a", "c", "t", "i", "o", "n", "s", " ", "e", "n", "f", "o", "r", "c",
      "e", "m", "e", "n", "t", ".", " ", "E", "v", "a", "l", "u", "a", "t",
      "e", " ", "t", "h", "e", "i", "r", " ", "c", "o", "m", "p", "l", "i",
      "a", "n", "c", "e", " ", "p", "o", "s", "t", "u", "r", "e", " ", "a",
      "c", "r", "o", "s", "s", " ", "I", "S", "O", " ", "2", "7", "0", "0",
      "1", ",", " ", "S", "O", "C", " ", "2", ",", " ", "G", "D", "P", "R",
      ",", " ", "a", "n", "d", " ", "a", "n", "y", " ", "r", "e", "g", "u",
      "l", "a", "t", "o", "r", "y", " ", "e", "n", "f", "o", "r", "c", "e",
      "m", "e", "n", "t", " ", "a", "c", "t", "i", "o", "n", "s", ".">>

\* " service availability SLA disaster recovery redundancy architecture"
Gemini3Head ==
    <<" ", "s", "e", "r", "v", "i", "c", "e", " ", "a", "v", "a", "i", "l",
      "a", "b", "i", "l", "i", "t", "y", " ", "S", "L", "A", " ", "d", "i",
      "s", "a", "s", "t", "e", "r", " ", "r", "e", "c", "o", "v", "e", "r",
      "y", " ", "r", "e", "d", "u", "n", "d", "a", "n", "c", "y", " ", "a",
      "r", "c", "h", "i", "t", "e", "c", "t", "u", "r", "e">>

\* ". Assess their availability guarantees, redundancy, and disaster r..."
Gemini3Tail ==
    <<".", " ", "A", "s", "s", "e", "s", "s", " ", "t", "h", "e", "i", "r",
      " ", "a", "v", "a", "i", "l", "a", "b", "i", "l", "i", "t", "y", " ",
      "g", "u", "a", "r", "a", "n", "t", "e", "e", "s", ",", " ", "r", "e",
      "d", "u", "n", "d", "a", "n", "c", "y", ",", " ", "a", "n", "d", " ",
      "d", "i", "s", "a", "s", "t", "e", "r", " ", "r", "e", "c", "o", "v",
      "e", "r", "y", " ", "c", "a", "p", "a", "b", "i", "l", "i", "t", "i",
      "e", "s", ".">>

\* " security incidents criticism concerns vulnerabilities 2024 2025 2..."
Grok1 ==
    <<" ", "s", "e", "c", "u", "r", "i", "t", "y", " ", "i", "n", "c", "i",
      "d", "e", "n", "t", "s", " ", "c", "r", "i", "t", "i", "c", "i", "s",
      "m", " ", "c", "o", "n", "c", "e", "r", "n", "s", " ", "v", "u", "l",
      "n", "e", "r", "a", "b", "i", "l", "i", "t", "i", "e", "s", " ", "2",
      "0", "2", "4", " ", "2", "0", "2", "5", " ", "2", "0", "2", "6", ".",
      " ", "W", "h", "a", "t", " ", "a", "r", "e", " ", "t", "h", "e", " ",
      "m", "o", "s", "t", " ", "s", "i", "g", "n", "i", "f", "i", "c", "a",
      "n", "t", " ", "s", "e", "c", "u", "r", "i", "t", "y", " ", "c", "o",
      "n", "c", "e", "r", "n", "s", ",", " ", "i", "n", "c", "i", "d", "e",
      "n", "t", "s", ",", " ", "o", "r", " ", "c", "r", "i", "t", "i", "c",
      "i", "s", "m", "s", "?", " ", "B", "e", " ", "t", "h", "o", "r", "o",
      "u", "g", "h", " ", "a", "n", "d", " ", "u", "n", "b", "i", "a", "s",
      "e", "d", ".">>

\* " enforcement actions fines regulatory investigations GDPR ICO FTC...."
Grok2 ==
    <<" ", "e", "n", "f", "o", "r", "c", "e", "m", "e", "n", "t", " ", "a",
      "c", "t", "i", "o", "n", "s", " ", "f", "i", "n", "e", "s", " ", "r",
      "e", "g", "u", "l", "a", "t", "o", "r", "y", " ", "i", "n", "v", "e",
      "s", "t", "i", "g", "a", "t", "i", "o", "n", "s", " ", "G", "D", "P",
      "R", " ", "I", "C", "O", " ", "F", "T", "C", ".", " ", "H", "a", "s",
      " ", "t", "h", "i", "s", " ", "c", "o", "m", "p", "a", "n", "y", " ",
      "f", "a", "c", "e", "d", " ", "a", "n", "y", " ", "r", "e", "g", "u",
      "l", "a", "t", "o", "r", "y", " ", "e", "n", "f", "o", "r", "c", "e",
      "m", "e", "n", "t", ",", " ", "f", "i", "n", "e", "s", ",", " ", "o",
      "r", " ", "i", "n", "v", "e", "s", "t", "i", "g", "a", "t", "i", "o",
      "n", "s", "?">>

\* " alternatives comparison security weaknesses limitations"
Grok3Head ==
    <<" ", "a", "l", "t", "e", "r", "n", "a", "t", "i", "v", "e", "s", " ",
      "c", "o", "m", "p", "a", "r", "i", "s", "o", "n", " ", "s", "e", "c",
      "u", "r", "i", "t", "y", " ", "w", "e", "a", "k", "n", "e", "s", "s",
      "e", "s", " ", "l", "i", "m", "i", "t", "a", "t", "i", "o", "n", "s">>

\* ". What are the known security weaknesses or limitations compared t..."
Grok3Tail ==
    <<".", " ", "W", "h", "a", "t", " ", "a", "r", "e", " ", "t", "h", "e",
      " ", "k", "n", "o", "w", "n", " ", "s", "e", "c", "u", "r", "i", "t",
      "y", " ", "w", "e", "a", "k", "n", "e", "s", "s", "e", "s", " ", "o",
      "r", " ", "l", "i", "m", "i", "t", "a", "t", "i", "o", "n", "s", " ",
      "c", "o", "m", "p", "a", "r", "e", "d", " ", "t", "o", " ", "a", "l",
      "t", "e", "r", "n", "a", "t", "i", "v", "e", "s", "?">>

\* Mutant of generateQueries: Grok is given two queries only.
generateQueriesTwoForGrok(vendorName, servicesUsed) ==
    LET shortName == ShortName(vendorName)
        serviceContext == ServiceContext(servicesUsed)
    IN  [perplexity |-> <<shortName \o Perplexity1,
                          shortName \o Perplexity2,
                          shortName \o Perplexity3 \o serviceContext>>,
         gemini |-> <<shortName \o Gemini1,
                      shortName \o Gemini2,
                      shortName \o Gemini3Head \o serviceContext \o Gemini3Tail>>,
         grok |-> <<shortName \o Grok1,
                    shortName \o Grok3Head \o serviceContext \o Grok3Tail>>]

generateQueries(vendorName, servicesUsed) ==
    LET shortName == ShortName(vendorName)
        serviceContext == ServiceContext(servicesUsed)
    IN  [perplexity |-> <<shortName \o Perplexity1,
                          shortName \o Perplexity2,
                          shortName \o Perplexity3 \o serviceContext>>,
         gemini |-> <<shortName \o Gemini1,
                      shortName \o Gemini2,
                      shortName \o Gemini3Head \o serviceContext \o Gemini3Tail>>,
         grok |-> <<shortName \o Grok1,
                    shortName \o Grok2,
                    shortName \o Grok3Head \o serviceContext \o Grok3Tail>>]

\* The inputs generateQueries is called with: a name, a separator and an
\* ending, of which some are legal-entity suffixes in several spellings and
\* some are not ("Inc" without its dot, "Co.").
VendorBases ==
    {<<>>,
     <<"A", "c", "m", "e">>,
     <<"a", "c", "m", "e", " ", "c", "o", "r", "p">>,
     <<"S", "a", "l", "e", "s", "C", "o", "r", "p">>,
     <<" ", "A", "c", "m", "e", " ", "I", "n", "c", ".">>}

Separators == {<<>>, <<" ">>, <<",">>, <<",", " ">>, <<" ", ",", " ">>}

\* Endings that the pattern matches.
SuffixEndings ==
    {<<"I", "n", "c", ".">>, <<"L", "L", "C">>, <<"L", "t", "d">>,
     <<"L", "t", "d", ".">>, <<"C", "o", "r", "p">>, <<"C", "o", "r", "p", ".">>,
     <<"G", "m", "b", "H">>, <<"B", ".", "V", ".">>,
     <<"c", "o", "r", "p", ".">>, <<"g", "m", "b", "h">>}

\* Endings that the pattern does not match.
OtherEndings == {<<>>, <<"I", "n", "c">>, <<"C", "o", ".">>, <<"C", "o", "r", "p", ".", " ">>}

VendorNames ==
    {b \o s \o e : b \in VendorBases, s \in Separators, e \in SuffixEndings \cup OtherEndings}

\* "Acme Corp." (orchestrator.test.ts:19)
AcmeCorp ==
    <<"A", "c", "m", "e", " ", "C", "o", "r", "p", ".">>

\* "Acme"
Acme == <<"A", "c", "m", "e">>

\* "cloud hosting" (orchestrator.test.ts:25)
CloudHosting ==
    <<"c", "l", "o", "u", "d", " ", "h", "o", "s", "t", "i", "n", "g">>

\* servicesUsed?: string -- absent, empty, or a text.
ServicesTexts == {JUndefined, JString(<<>>), JString(CloudHosting)}

(***************************************************************************)
(* formatResearchForPrompt (orchestrator.ts).  A text is the sequence of   *)
(* the fragments it is concatenated from.                                  *)
(***************************************************************************)
\* provider === 'Perplexity' ? ... : provider === 'Gemini' ? ... : provider
ProviderLabel(provider) ==
    CASE provider = "Perplexity" -> "Perplexity (Web Search with Citations)"
      [] provider = "Gemini" -> "Gemini (Multi-Perspective Analysis)"
      [] provider = "Grok" -> "Grok (Contrarian Analysis)"
      [] OTHER -> provider

\* `${r.error}`: an absent error is interpolated as "undefined".
ErrorString(error) == IF error = NoError THEN <<"undefined">> ELSE error

\* Mutant of AddToGroup: setting a key that is in the map moves it to the end.
AddToGroupMovedLast(byProvider, r) ==
    LET others == SelectSeq(byProvider, LAMBDA g : g.provider # r.provider)
        own == SelectSeq(byProvider, LAMBDA g : g.provider = r.provider)
    IN  Append(others,
               [provider |-> r.provider,
                results |-> Append(IF own = <<>> THEN <<>> ELSE own[1].results, r)])

\* existing = byProvider.get(r.provider) ?? []; existing.push(r);
\* byProvider.set(r.provider, existing): a Map keeps its keys in the order
\* of their first insertion.
AddToGroup(byProvider, r) ==
    IF \E k \in 1..Len(byProvider) : byProvider[k].provider = r.provider
    THEN LET k == CHOOSE k \in 1..Len(byProvider) : byProvider[k].provider = r.provider
         IN  [byProvider EXCEPT ![k].results = Append(@, r)]
    ELSE Append(byProvider, [provider |-> r.provider, results |-> <<r>>])

\* for (const r of aggregated.results) {...}
RECURSIVE GroupByProvider(_, _)
GroupByProvider(byProvider, results) ==
    IF results = <<>> THEN byProvider
    ELSE GroupByProvider(AddToGroup(byProvider, Head(results)), Tail(results))

\* sections.push(`- ${src}`) for each source
SourceSections(sources) ==
    [k \in 1..Len(sources) |-> <<"- ">> \o sources[k].items]

\* The sections pushed for a result with success and content.
ContentSections(r) ==
    <<(<<"**Query:** ", r.query, "\n">>), <<r.content>>>>
    \o (IF Len(r.sources.items) > 0
        THEN <<(<<"\n**Sources:**">>)>> \o SourceSections(r.sources.items)
        ELSE <<>>)
    \o <<(<<>>)>>

\* Mutant of FailedSections: the marker does not carry the error.
FailedSectionsNoError(r) ==
    <<(<<"**Query:** ", r.query>>), <<"*Failed*\n">>>>

\* The sections pushed for a failed result.
FailedSections(r) ==
    <<(<<"**Query:** ", r.query>>),
      <<"*Failed: ">> \o ErrorString(r.error) \o <<"*\n">>>>

\* Mutant of ResultSections: the test on r.content is missing.
ResultSectionsAnyContent(r) ==
    IF r.success THEN ContentSections(r) ELSE FailedSections(r)

\* The body of the inner loop: a successful result without content pushes
\* nothing.
ResultSections(r) ==
    IF r.success /\ r.content # "" THEN ContentSections(r)
    ELSE IF ~r.success THEN FailedSections(r)
    ELSE <<>>

RECURSIVE ResultsSections(_)
ResultsSections(results) ==
    IF results = <<>> THEN <<>>
    ELSE ResultSections(Head(results)) \o ResultsSections(Tail(results))

\* Mutant of GroupsSections: a provider none of whose results pushes a
\* section gets no header.
RECURSIVE GroupsSectionsNoBareHeader(_)
GroupsSectionsNoBareHeader(byProvider) ==
    IF byProvider = <<>> THEN <<>>
    ELSE (IF ResultsSections(Head(byProvider).results) = <<>> THEN <<>>
          ELSE <<(<<"### ", ProviderLabel(Head(byProvider).provider), "\n">>)>>)
         \o ResultsSections(Head(byProvider).results)
         \o GroupsSectionsNoBareHeader(Tail(byProvider))

\* for (const [provider, results] of byProvider) {...}
RECURSIVE GroupsSections(_)
GroupsSections(byProvider) ==
    IF byProvider = <<>> THEN <<>>
    ELSE <<(<<"### ", ProviderLabel(Head(byProvider).provider), "\n">>)>>
         \o ResultsSections(Head(byProvider).results)
         \o GroupsSections(Tail(byProvider))

\* sections.join('\n')
RECURSIVE JoinLines(_)
JoinLines(sections) ==
    IF sections = <<>> THEN <<>>
    ELSE IF Len(sections) = 1 THEN sections[1]
    ELSE sections[1] \o <<"\n">> \o JoinLines(Tail(sections))

formatResearchForPrompt(agg) ==
    JoinLines(GroupsSections(GroupByProvider(<<>>, agg.results)))

\* The results formatResearchForPrompt is called with: up to MaxResults of
\* them, of any provider name, the k-th with the k-th query text, each one
\*   a success with content and a source, a success with content only,
\*   a success without content (and a source of its own), a failure as
\*   search returns it, or
\*   a failure that kept a content.
FormatProviders == {"Perplexity", "Gemini", "Grok", "Mistral"}

FormatQueries == <<"test query 1", "test query 2", "test query 3", "test query 4">>

ResultKinds(provider, query) ==
    {ResearchResult(provider, query, "Found certifications",
                    JArray(<<JString(ExampleCom)>>), TRUE, NoError),
     ResearchResult(provider, query, "Security analysis", JArray(<<>>), TRUE, NoError),
     ResearchResult(provider, query, "", JArray(<<JString(ExampleComUpper)>>), TRUE,
                    NoError),
     FailedResult(provider, query, ErrorText("API timeout")),
     ResearchResult(provider, query, "partial answer", JArray(<<>>), FALSE,
                    HttpErrorText("500", "Internal Server Error"))}

ResultLists ==
    UNION {[1..n -> UNION {ResultKinds(p, "") : p \in FormatProviders}] :
              n \in 0..MaxResults}

\* The k-th result is given the k-th query text.
WithQueries(rs) == [k \in 1..Len(rs) |-> [rs[k] EXCEPT !.query = FormatQueries[k]]]

(***************************************************************************)
(* handler.ts: parseInput, requireString, optionalString and the responses *)
(***************************************************************************)
\* const VALID_ASSESSMENT_TYPES = ['new', 'annual-review', 'adhoc']
VALID_ASSESSMENT_TYPES ==
    <<<<"n", "e", "w">>,
      <<"a", "n", "n", "u", "a", "l", "-", "r", "e", "v", "i", "e", "w">>,
      <<"a", "d", "h", "o", "c">>>>

\* const VALID_DATA_ROLES = ['Processor', 'Controller', 'Joint Controller']
VALID_DATA_ROLES ==
    <<<<"P", "r", "o", "c", "e", "s", "s", "o", "r">>,
      <<"C", "o", "n", "t", "r", "o", "l", "l", "e", "r">>,
      <<"J", "o", "i", "n", "t", " ", "C", "o", "n", "t", "r", "o", "l", "l", "e",
  "r">>>>

\* xs.includes(x)
Includes(xs, x) == \E i \in 1..Len(xs) : xs[i] = x

\* xs.join(', ')
RECURSIVE JoinComma(_)
JoinComma(xs) ==
    IF xs = <<>> THEN <<>>
    ELSE IF Len(xs) = 1 THEN xs[1]
    ELSE xs[1] \o <<",", " ">> \o JoinComma(Tail(xs))

\* The keys parseInput requires, in the order in which it reads them.
RequiredKeys ==
    <<"vendorName", "vendorDescription", "clientName", "assessmentType",
      "servicesUsed", "dataRole">>

\* Mutant of requireString: a string of white space only is accepted.
requireStringNotTrimmed(obj, key) ==
    IF obj[key].t # "string" \/ obj[key].items = <<>>
    THEN Throws(<<>>, <<"Missing or empty required field: ", key>>)
    ELSE Returns(trim(obj[key].items))

\* function requireString(obj, key)
requireString(obj, key) ==
    IF obj[key].t # "string" \/ trim(obj[key].items) = <<>>
    THEN Throws(<<>>, <<"Missing or empty required field: ", key>>)
    ELSE Returns(trim(obj[key].items))

\* function optionalString(obj, key): the trimmed string, or null.
JNull == [t |-> "null", items |-> <<>>]

optionalString(obj, key) ==
    IF obj[key].t # "string" \/ trim(obj[key].items) = <<>> THEN JNull
    ELSE JString(trim(obj[key].items))

NoInput ==
    [vendorName |-> <<>>, vendorDescription |-> <<>>, clientName |-> <<>>,
     assessmentType |-> <<>>, servicesUsed |-> <<>>, dataRole |-> <<>>,
     supplierFormContent |-> JNull, additionalContext |-> JNull]

\* function parseInput(event).  event.body is null, '', a text that is not
\* JSON, the JSON text "null", or the JSON text of an object whose members
\* are event.fields.
parseInput(event) ==
    IF event.body \in {"null", "empty"}
    THEN Throws(NoInput, <<"Request body is required">>)
    ELSE IF event.body = "invalid"
    THEN Throws(NoInput, <<"Invalid JSON in request body">>)
    ELSE IF event.body = "jsonNull"
    THEN Throws(NoInput, <<NullErrorMessage>>)
    ELSE LET body == event.fields
             bad == {k \in 1..Len(RequiredKeys) : requireString(body, RequiredKeys[k]).threw}
             assessmentType == requireString(body, "assessmentType").value
             dataRole == requireString(body, "dataRole").value
         IN  IF bad # {}
             THEN Throws(NoInput,
                         requireString(body, RequiredKeys[CHOOSE k \in bad :
                                                              \A h \in bad : k <= h]).message)
             ELSE IF ~Includes(VALID_ASSESSMENT_TYPES, assessmentType)
             THEN Throws(NoInput,
                         <<"Invalid assessmentType: ">> \o assessmentType
                         \o <<". Must be one of: ">> \o JoinComma(VALID_ASSESSMENT_TYPES))
             ELSE IF ~Includes(VALID_DATA_ROLES, dataRole)
             THEN Throws(NoInput,
                         <<"Invalid dataRole: ">> \o dataRole
                         \o <<". Must be one of: ">> \o JoinComma(VALID_DATA_ROLES))
             ELSE Returns([vendorName |-> requireString(body, "vendorName").value,
                           vendorDescription |-> requireString(body, "vendorDescription").value,
                           clientName |-> requireString(body, "clientName").value,
                           assessmentType |-> assessmentType,
                           servicesUsed |-> requireString(body, "servicesUsed").value,
                           dataRole |-> dataRole,
                           supplierFormContent |-> optionalString(body, "supplierFormContent"),
                           additionalContext |-> optionalString(body, "additionalContext")])

Digits == {"0", "1", "2", "3", "4", "5", "6", "7", "8", "9"}

AlphaNumeric ==
    Digits \cup {UpperCase[i] : i \in 1..Len(UpperCase)}
           \cup {LowerCase[i] : i \in 1..Len(LowerCase)}

\* s.replace(/[^a-zA-Z0-9]+/g, '-'): every run of other characters becomes
\* one '-'.
RunsToDashes(s) ==
    LET keep == {i \in 1..Len(s) :
                    s[i] \in AlphaNumeric \/ i = 1 \/ s[i - 1] \in AlphaNumeric}
        nth(n) == CHOOSE i \in keep : Cardinality({h \in keep : h <= i}) = n
    IN  [n \in 1..Cardinality(keep) |->
            IF s[nth(n)] \in AlphaNumeric THEN s[nth(n)] ELSE "-"]

\* s.replace(/-+$/, '')
RECURSIVE DropTrailingDashes(_)
DropTrailingDashes(s) ==
    IF s # <<>> /\ s[Len(s)] = "-" THEN DropTrailingDashes(SubSeq(s, 1, Len(s) - 1))
    ELSE s

\* const vendorSlug = input.vendorName.replace(suffix, '').trim()
\*                        .replace(/[^a-zA-Z0-9]+/g, '-').replace(/-+$/, '')
VendorSlug(vendorName) ==
    DropTrailingDashes(RunsToDashes(trim(StripLegalSuffix(vendorName))))

\* new Date().toISOString().split('T')[0]
Today == "<today>"

\* `DPSIA-${vendorSlug}-${today}.docx`
ReportFilename(vendorName) ==
    <<"DPSIA-">> \o VendorSlug(vendorName) \o <<"-", Today, ".docx">>

\* What synthesis returns: the fields of the DPSIAReport that handler reads.
Report(ragStatus, recommendation, level) ==
    [ragStatus |-> ragStatus, recommendation |-> recommendation,
     inherentRiskScore |-> "<score>", inherentRiskLevel |-> level,
     executiveSummary |-> "<summary>"]

NoReport == Report("", "", "")

\* Mutant of CompleteResponse: the vendor name is left empty, as in the
\* error output.
CompleteResponseNoVendor(input, rep, res, markdown, docx) ==
    [statusCode |-> 200,
     body |-> [status |-> "complete",
               vendorName |-> <<>>,
               ragStatus |-> rep.ragStatus,
               riskScore |-> rep.inherentRiskScore,
               riskLevel |-> rep.inherentRiskLevel,
               recommendation |-> rep.recommendation,
               executiveSummary |-> rep.executiveSummary,
               reportMarkdown |-> markdown,
               reportDocxBase64 |-> docx,
               reportFilename |-> ReportFilename(input.vendorName),
               researchSources |-> res.allSources,
               error |-> <<>>]]

\* The AssessmentOutput of the try block and the 200 response.
CompleteResponse(input, rep, res, markdown, docx) ==
    [statusCode |-> 200,
     body |-> [status |-> "complete",
               vendorName |-> input.vendorName,
               ragStatus |-> rep.ragStatus,
               riskScore |-> rep.inherentRiskScore,
               riskLevel |-> rep.inherentRiskLevel,
               recommendation |-> rep.recommendation,
               executiveSummary |-> rep.executiveSummary,
               reportMarkdown |-> markdown,
               reportDocxBase64 |-> docx,
               reportFilename |-> ReportFilename(input.vendorName),
               researchSources |-> res.allSources,
               error |-> <<>>]]

\* The AssessmentOutput of the catch block and the 500 response.
ErrorResponse(message) ==
    [statusCode |-> 500,
     body |-> [status |-> "error", vendorName |-> <<>>, ragStatus |-> "RED",
               riskScore |-> "0", riskLevel |-> "CRITICAL",
               recommendation |-> "REJECT", executiveSummary |-> "",
               reportMarkdown |-> "", reportDocxBase64 |-> "",
               reportFilename |-> <<>>, researchSources |-> <<>>,
               error |-> message]]

NoResponse == [statusCode |-> 0, body |-> ErrorResponse(<<>>).body]

\* The requests handler is called with.
TestVendorInc ==
    <<"T", "e", "s", "t", "V", "e", "n", "d", "o", "r", ",", " ", "I", "n", "c",
  ".">>

\* " Acme Corp. "
PaddedAcmeCorp == <<" ">> \o AcmeCorp \o <<" ">>

VendorNameFields ==
    {JUndefined, JNumber, JString(<<>>), JString(<<" ", " ">>),
     JString(TestVendorInc), JString(PaddedAcmeCorp)}

TextFields == {JUndefined, JString(<<"T", "e", "s", "t">>)}

AssessmentTypeFields ==
    {JUndefined, JString(<<"i", "n", "v", "a", "l", "i", "d">>),
     JString(<<" ">> \o VALID_ASSESSMENT_TYPES[3] \o <<" ">>)}
    \cup {JString(VALID_ASSESSMENT_TYPES[i]) : i \in 1..Len(VALID_ASSESSMENT_TYPES)}

DataRoleFields ==
    {JUndefined,
     JString(<<"I", "n", "v", "a", "l", "i", "d", "R", "o", "l", "e">>)}
    \cup {JString(VALID_DATA_ROLES[i]) : i \in 1..Len(VALID_DATA_ROLES)}

NoFields ==
    [vendorName |-> JUndefined, vendorDescription |-> JUndefined,
     clientName |-> JUndefined, assessmentType |-> JUndefined,
     servicesUsed |-> JUndefined, dataRole |-> JUndefined,
     supplierFormContent |-> JUndefined, additionalContext |-> JUndefined]

Events ==
    {[body |-> b, fields |-> NoFields] : b \in {"null", "empty", "invalid", "jsonNull"}}
    \cup {[body |-> "object",
           fields |-> [vendorName |-> v, vendorDescription |-> d, clientName |-> c,
                       assessmentType |-> a, servicesUsed |-> s, dataRole |-> r,
                       supplierFormContent |-> JUndefined,
                       additionalContext |-> JString(<<" ">>)]] :
             v \in VendorNameFields, d \in TextFields, c \in TextFields,
             a \in AssessmentTypeFields, s \in TextFields, r \in DataRoleFields}

\* What the stages handler awaits can answer.
SecretsErrorMessage == "Secret dpsia-lambda/config has no string value"
SynthesisErrorMessage == "No text content in Claude response"
MarkdownErrorMessage == "report.keyFindings is not iterable"
DocxErrorMessage == "generateDocx failed"

\* conductResearch resolved: with a success, or with every task failed.
ResearchErrorMessage == "src.trim is not a function"

ResearchValues ==
    {[results |-> <<ResearchResult("Perplexity", "test", "Research content",
                                   JArray(<<>>), TRUE, NoError)>>,
      providersUsed |-> <<"Perplexity">>, allSources |-> <<>>,
      successCount |-> 1, failureCount |-> 0],
     [results |-> <<FailedResult("Perplexity", "test", ErrorText(NetworkErrorMessage))>>,
      providersUsed |-> <<>>, allSources |-> <<>>,
      successCount |-> 0, failureCount |-> 1]}

Reports ==
    {Report("AMBER", "CONDITIONAL_APPROVAL", "LOW"),
     Report("GREEN", "APPROVE", "LOW"),
     Report("RED", "REJECT", "HIGH")}

\* Mutant of Caught: the error is thrown on to the caller of handler.
CaughtRethrown(message) == Rejected(NoResponse, message)

\* catch (err) { ... return { statusCode: 500, ... } }: the promise of
\* handler is fulfilled with the error response.
Caught(message) == Fulfilled(ErrorResponse(message))

\* Mutant of AfterResearch: research without one success is an error.
AfterResearchNeedsSuccess(res) ==
    IF res.successCount = 0
    THEN Throws(<<>>, <<"No research provider succeeded">>)
    ELSE Returns(formatResearchForPrompt(res))

\* From the resolution of conductResearch to the call of runAssessment:
\* the research text is built and handed to synthesis, whatever the counts.
AfterResearch(res) == Returns(formatResearchForPrompt(res))

(***************************************************************************)
(* getSecrets (utils/secrets.ts)                                           *)
(***************************************************************************)
\* const CACHE_TTL_MS = 5 * 60 * 1000
CACHE_TTL_MS == 5 * 60 * 1000

SecretKeys == {"ANTHROPIC_API_KEY", "PERPLEXITY_API_KEY", "GOOGLE_API_KEY", "XAI_API_KEY"}

\* !value for the value of an environment variable or of a member of the
\* parsed secret: undefined and '' are falsy.
Falsy(value) == value \in {Undefined, ""}

\* let cached: DPSIASecrets | null = null
NoSecretsValue == [k \in SecretKeys |-> Undefined]

\* function getFromEnv(): the four variables if all four are set, or null.
getFromEnv(e) ==
    IF \A k \in SecretKeys : ~Falsy(e[k]) THEN Returns(e)
    ELSE Returns(NoSecretsValue)

\* function requireKey(obj, key), for the four keys in the order of the
\* object literal: the first key that is missing throws.
KeyOrder == <<"ANTHROPIC_API_KEY", "PERPLEXITY_API_KEY", "GOOGLE_API_KEY", "XAI_API_KEY">>

requireKeys(parsed) ==
    LET missing == {i \in 1..Len(KeyOrder) : Falsy(parsed[KeyOrder[i]])}
    IN  IF missing # {}
        THEN Throws(NoSecretsValue,
                    <<"Missing required secret: ",
                      KeyOrder[CHOOSE i \in missing : \A h \in missing : i <= h]>>)
        ELSE Returns(parsed)

\* Mutant of Fresh: the cached value is still served at the expiry time.
FreshAtExpiry(c, expiry, t) == c # NoSecretsValue /\ t <= expiry

\* cached && Date.now() < cacheExpiry
Fresh(c, expiry, t) == c # NoSecretsValue /\ t < expiry

\* What process.env holds: the four variables set, none set, one empty.
EnvSet == [k \in SecretKeys |-> "env"]

Envs ==
    {EnvSet, NoSecretsValue, [EnvSet EXCEPT !["XAI_API_KEY"] = ""]}

\* What client.send(command) can answer: a rejection, a response without
\* SecretString, a SecretString that is not JSON, the JSON of an object with
\* the four keys, the JSON of an object that lacks one.
VaultSet == [k \in SecretKeys |-> "vault"]

VaultAnswer(kind, parsed) == [kind |-> kind, parsed |-> parsed]

VaultAnswers ==
    {VaultAnswer("rejects", NoSecretsValue),
     VaultAnswer("noString", NoSecretsValue),
     VaultAnswer("notJson", NoSecretsValue),
     VaultAnswer("json", VaultSet),
     VaultAnswer("json", [VaultSet EXCEPT !["GOOGLE_API_KEY"] = Undefined])}

VaultErrorMessage == "AccessDeniedException"
JsonErrorMessage == "Unexpected token in JSON"

\* The code of getSecrets after `await client.send(command)` resolved.
AfterSend(answer) ==
    IF answer.kind = "noString"
    THEN Throws(NoSecretsValue, <<"Secret ", "dpsia-lambda/config", " has no string value">>)
    ELSE IF answer.kind = "notJson"
    THEN Throws(NoSecretsValue, <<JsonErrorMessage>>)
    ELSE requireKeys(answer.parsed)

\* Secrets Manager would give the four keys.
Obtainable(answer) == answer.kind # "rejects" /\ ~AfterSend(answer).threw

\* The readings of the clock: every multiple of the time to live and the
\* millisecond before it.
Times ==
    {t \in {k * CACHE_TTL_MS + d : k \in 0..MaxPeriods, d \in {-1, 0}} : t >= 0}

(***************************************************************************)
(* State                                                                   *)
(***************************************************************************)
VARIABLES
    tasks,    \* the calls of search that are made: a sequence of {provider, query}
    pc,       \* pc[i]: where call i of search stands
    timer,    \* timer[i]: the timeout timer of call i
    cause,    \* cause[i]: the environment event that ended call i (history)
    promise,  \* promise[i]: the promise search returned for call i
    timeUp,   \* timeoutMs has elapsed since the calls were issued
    faults,   \* the kinds of misbehaviour the environment shows in this run
    outOfOrder, \* some call ended while a call dispatched before it was pending (history)
    orch,     \* where conductResearch stands
    ret,      \* the promise conductResearch returned
    outbound  \* outbound[i]: how many times call i has called fetch (history)

\* The arguments and the results of the pure functions when they are called
\* on their own.
VARIABLES
    vendorName,   \* generateQueries: its first argument
    servicesUsed, \* generateQueries: its second argument
    generated,    \* what the calls of generateQueries made so far returned
    aggregated,   \* formatResearchForPrompt: its argument (the field it reads)
    formatted     \* what formatResearchForPrompt returned, once it has

\* handler (handler.ts)
VARIABLES
    event,        \* the request handler is called with
    hpc,          \* where handler stands: the stage it awaits
    input,        \* what parseInput returned
    research,     \* what conductResearch resolved with
    researchText, \* the research text synthesis was called with
    report,       \* what runAssessment resolved with
    stages,       \* the stages handler started, ended or saw throw, in order (history)
    response      \* the promise handler returned

\* getSecrets (secrets.ts)
VARIABLES
    env,          \* process.env: the four variables
    vault,        \* what Secrets Manager answers to GetSecretValue
    cached,       \* let cached: DPSIASecrets | null
    cacheExpiry,  \* let cacheExpiry
    now,          \* Date.now()
    sm,           \* where the call of getSecrets in progress stands
    called,       \* the call in progress: when it was made (history)
    got           \* what the calls of getSecrets returned, in order (history)

callVars == <<tasks, pc, timer, cause, promise, timeUp, faults, outOfOrder, orch, ret,
              outbound>>

pureVars == <<vendorName, servicesUsed, generated, aggregated, formatted>>

handlerVars == <<event, hpc, input, research, researchText, report, stages, response>>

secretVars == <<env, vault, cached, cacheExpiry, now, sm, called, got>>

vars == <<callVars, pureVars, handlerVars, secretVars>>

Calls == 1..Len(tasks)

NoValue == ResearchResult("", "", "", JArray(<<>>), FALSE, NoError)

NoAggregate ==
    [results |-> <<>>, providersUsed |-> <<>>, allSources |-> <<>>,
     successCount |-> 0, failureCount |-> 0]

\* The calls whose response body is in transit.
Reading == {i \in Calls : pc[i] \in {"text", "json"}}

Issued == {i \in Calls : pc[i] # "idle"}

Settled == {i \in Calls : promise[i].status # "pending"}

(***************************************************************************)
(* search: from the call to the first await                                *)
(*   const controller = new AbortController();                             *)
(*   const timeout = setTimeout(() => controller.abort(), timeoutMs);      *)
(*   const response = await fetch(url, {..., signal: controller.signal});  *)
(***************************************************************************)
StartSearch(batch) ==
    /\ pc' = [i \in Calls |-> IF i \in batch THEN "fetch" ELSE pc[i]]
    /\ timer' = [i \in Calls |-> IF i \in batch THEN "armed" ELSE timer[i]]
    /\ outbound' = [i \in Calls |-> IF i \in batch THEN outbound[i] + 1 ELSE outbound[i]]

\* Call i ends: its promise settles to what the try/catch makes of block.
Finish(i, why, block) ==
    /\ pc' = [pc EXCEPT ![i] = "done"]
    /\ cause' = [cause EXCEPT ![i] = why]
    /\ promise' = [promise EXCEPT ![i] = SearchSettles(tasks[i], block)]
    /\ outOfOrder' = (outOfOrder \/ \E j \in 1..(i - 1) : promise[j].status = "pending")

CauseOfBody(b) ==
    IF b.isNull THEN "null"
    ELSE IF b = EmptyObject THEN "shape"
    ELSE IF b.citations \in BadCitations THEN "citations"
    ELSE "ok"

\* How `await response.json()` can end, and what the code does then.
AfterJson(task, f) ==
    {[cause |-> CauseOfBody(b), block |-> OnJson(task, b)] : b \in Bodies(task.provider, f)}
    \cup (IF "parse" \in f
          THEN {[cause |-> "parse", block |-> OnRejection(task, ParseErrorMessage)]}
          ELSE {})
    \cup (IF "stream" \in f
          THEN {[cause |-> "stream", block |-> OnRejection(task, StreamErrorMessage)]}
          ELSE {})

\* How `await response.text()` can end, and what the code does then.
AfterText(task, f) ==
    {[cause |-> "http", block |-> OnErrorText(task, s, e)] :
        s \in HttpStatuses, e \in ErrorBodies}
    \cup (IF "stream" \in f
          THEN {[cause |-> "stream", block |-> OnRejection(task, StreamErrorMessage)]}
          ELSE {})

AfterBody(reader, task, f) ==
    IF reader = "json" THEN AfterJson(task, f) ELSE AfterText(task, f)

\* Mutant of FetchRejects: a rejected fetch is retried once.
FetchRejectsRetried(i) ==
    /\ pc[i] = "fetch"
    /\ ~timeUp
    /\ "network" \in faults
    /\ IF outbound[i] < 2
       THEN /\ outbound' = [outbound EXCEPT ![i] = @ + 1]
            /\ UNCHANGED <<pc, cause, promise, outOfOrder>>
       ELSE /\ Finish(i, "network", OnRejection(tasks[i], NetworkErrorMessage))
            /\ UNCHANGED outbound
    /\ UNCHANGED <<handlerVars, secretVars, pureVars, tasks, timer, timeUp, faults, orch, ret>>

\* fetch rejects (network error): the catch block returns the failed result.
\* The timer is not cleared on this path.
FetchRejects(i) ==
    /\ pc[i] = "fetch"
    /\ ~timeUp
    /\ "network" \in faults
    /\ Finish(i, "network", OnRejection(tasks[i], NetworkErrorMessage))
    /\ UNCHANGED <<handlerVars, secretVars, pureVars, tasks, outbound, timer, timeUp, faults, orch, ret>>

\* fetch resolves with a response: clearTimeout(timeout), then the code awaits
\* response.text() (!response.ok) or response.json().  The body is either
\* still in transit, or already there, and then the reader settles in the
\* same turn.
FetchResolves(i) ==
    /\ pc[i] = "fetch"
    /\ ~timeUp
    /\ timer' = [timer EXCEPT ![i] = "cleared"]
    /\ \E reader \in {"json"} \cup (IF "http" \in faults THEN {"text"} ELSE {}) :
          \/ /\ Cardinality(Reading) < MaxReading
             /\ pc' = [pc EXCEPT ![i] = reader]
             /\ UNCHANGED <<cause, promise, outOfOrder>>
          \/ \E o \in AfterBody(reader, tasks[i], faults) : Finish(i, o.cause, o.block)
    /\ UNCHANGED <<handlerVars, secretVars, pureVars, tasks, outbound, timeUp, faults, orch, ret>>

\* The body reader of call i settles.
BodySettles(i) ==
    /\ pc[i] \in {"text", "json"}
    /\ \E o \in AfterBody(pc[i], tasks[i], faults) : Finish(i, o.cause, o.block)
    /\ UNCHANGED <<handlerVars, secretVars, pureVars, tasks, outbound, timer, timeUp, faults, orch, ret>>

\* timeoutMs elapses.
Elapse ==
    /\ ~timeUp
    /\ "timeout" \in faults
    /\ Issued # {}
    /\ timeUp' = TRUE
    /\ UNCHANGED <<handlerVars, secretVars, pureVars, tasks, outbound, pc, timer, cause, promise, faults, outOfOrder, orch, ret>>

\* Mutant of TimerFires: one AbortController shared by all the calls, so the
\* first timer that fires aborts every fetch that is still pending.
TimerFiresSharedSignal(i) ==
    /\ timeUp
    /\ timer[i] = "armed"
    /\ timer' = [timer EXCEPT ![i] = "fired"]
    /\ pc' = [j \in Calls |-> IF pc[j] = "fetch" THEN "done" ELSE pc[j]]
    /\ cause' = [j \in Calls |-> IF pc[j] = "fetch" THEN "timeout" ELSE cause[j]]
    /\ promise' = [j \in Calls |->
                      IF pc[j] = "fetch"
                      THEN SearchSettles(tasks[j], OnRejection(tasks[j], AbortMessage))
                      ELSE promise[j]]
    /\ UNCHANGED <<handlerVars, secretVars, pureVars, tasks, outbound, timeUp, faults, outOfOrder, orch, ret>>

\* The timer callback of call i: controller.abort().  A fetch that is still
\* pending rejects with the AbortError, and the catch block returns the
\* failed result; on a call that is past its fetch the abort does nothing.
TimerFires(i) ==
    /\ timeUp
    /\ timer[i] = "armed"
    /\ timer' = [timer EXCEPT ![i] = "fired"]
    /\ IF pc[i] = "fetch"
       THEN Finish(i, "timeout", OnRejection(tasks[i], AbortMessage))
       ELSE UNCHANGED <<pc, cause, promise, outOfOrder>>
    /\ UNCHANGED <<handlerVars, secretVars, pureVars, tasks, outbound, timeUp, faults, orch, ret>>

(***************************************************************************)
(* conductResearch                                                         *)
(***************************************************************************)
\* Mutant of ToIssue: a `for ... await` loop, one call after the other.
ToIssueSequential ==
    IF Issued \subseteq Settled /\ Issued # Calls
    THEN {CHOOSE i \in Calls \ Issued : \A j \in Calls \ Issued : i <= j}
    ELSE {}

\* tasks.map(({provider, query}) => provider.search(query, timeoutMs)): the
\* calls conductResearch starts when it runs.
ToIssue == Calls \ Issued

\* Mutant of JoinReady: Promise.all over results, resuming on the first failure.
JoinReadyFailFast ==
    \/ Settled = Calls
    \/ \E i \in Settled : ~promise[i].value.success

\* Promise.allSettled: resumes conductResearch when no promise is pending.
JoinReady == Settled = Calls

\* The synchronous start of conductResearch, up to its await.
Dispatch ==
    /\ orch = "dispatch"
    /\ ToIssue # {}
    /\ StartSearch(ToIssue)
    /\ orch' = IF Issued \cup ToIssue = Calls THEN "awaitAll" ELSE "dispatch"
    /\ UNCHANGED <<handlerVars, secretVars, pureVars, tasks, cause, promise, timeUp, faults, outOfOrder, ret>>

\* conductResearch resumes after the await and runs to its end.
Join ==
    /\ orch = "awaitAll"
    /\ JoinReady
    /\ LET block == Aggregate(promise, tasks)
       IN  IF block.threw
           THEN orch' = "rejected" /\ ret' = Rejected(NoAggregate, block.message)
           ELSE orch' = "returned" /\ ret' = Fulfilled(block.value)
    /\ UNCHANGED <<handlerVars, secretVars, pureVars, tasks, outbound, pc, timer, cause, promise, timeUp, faults, outOfOrder>>

\* The three clients called directly, in one turn.
Invoke ==
    /\ orch = "direct"
    /\ Issued = {}
    /\ StartSearch(Calls)
    /\ UNCHANGED <<handlerVars, secretVars, pureVars, tasks, cause, promise, timeUp, faults, outOfOrder, orch, ret>>

(***************************************************************************)
(* Specifications                                                          *)
(***************************************************************************)
InitCalls(ts) ==
    /\ tasks = ts
    /\ pc = [i \in 1..Len(ts) |-> "idle"]
    /\ timer = [i \in 1..Len(ts) |-> "none"]
    /\ cause = [i \in 1..Len(ts) |-> "none"]
    /\ promise = [i \in 1..Len(ts) |-> Pending(NoValue)]
    /\ timeUp = FALSE
    /\ outOfOrder = FALSE
    /\ ret = Pending(NoAggregate)
    /\ outbound = [i \in 1..Len(ts) |-> 0]

\* No call of search is made.
NoCalls ==
    /\ InitCalls(<<>>)
    /\ orch = "none"
    /\ faults = {}

\* generateQueries is not called.
NoGeneration ==
    /\ vendorName = <<>>
    /\ servicesUsed = JUndefined
    /\ generated = <<>>

NotFormatted == [done |-> FALSE, text |-> <<>>]

\* formatResearchForPrompt is not called.
NoFormatting ==
    /\ aggregated = [results |-> <<>>]
    /\ formatted = NotFormatted

\* handler is not called.
NoHandling ==
    /\ event = [body |-> "null", fields |-> NoFields]
    /\ hpc = "none"
    /\ input = NoInput
    /\ research = NoAggregate
    /\ researchText = <<>>
    /\ report = NoReport
    /\ stages = <<>>
    /\ response = Pending(NoResponse)

\* getSecrets is not called.
NoSecrets ==
    /\ env = NoSecretsValue
    /\ vault = VaultAnswer("rejects", NoSecretsValue)
    /\ cached = NoSecretsValue
    /\ cacheExpiry = 0
    /\ now = 0
    /\ sm = "none"
    /\ called = 0
    /\ got = <<>>

\* A run of conductResearch shows at most one kind of misbehaviour, of the
\* kinds conductResearch can tell apart: it reads success, provider and
\* sources of a result and nothing else.
RunFaults == {{}, {"network"}, {"timeout"}, {"varied"}, {"citations"}}

\* conductResearch has built its task list and is about to dispatch.
Init ==
    /\ InitCalls(BuildTasks(providers))
    /\ orch = "dispatch"
    /\ faults \in RunFaults
    /\ NoGeneration
    /\ NoFormatting
    /\ NoHandling
    /\ NoSecrets

Next ==
    \/ Dispatch
    \/ Join
    \/ Elapse
    \/ \E i \in Calls : FetchRejects(i)
    \/ \E i \in Calls : FetchResolves(i)
    \/ \E i \in Calls : BodySettles(i)
    \/ \E i \in Calls : TimerFires(i)

Spec == Init /\ [][Next]_vars

\* The three provider clients called directly, under every misbehaviour.
SearchInit ==
    /\ InitCalls(DirectCalls)
    /\ orch = "direct"
    /\ faults = FaultKinds
    /\ NoGeneration
    /\ NoFormatting
    /\ NoHandling
    /\ NoSecrets

SearchNext ==
    \/ Invoke
    \/ Elapse
    \/ \E i \in Calls : FetchRejects(i)
    \/ \E i \in Calls : FetchResolves(i)
    \/ \E i \in Calls : BodySettles(i)
    \/ \E i \in Calls : TimerFires(i)

SearchSpec == SearchInit /\ [][SearchNext]_vars

\* conductResearch resuming from Promise.allSettled with the outcomes a
\* ResearchProvider can have in general: its promise fulfilled with a
\* successful or a failed result, or rejected with an error that escaped it.
EscapedMessage == "provider exploded"

OutcomeKinds == {"ok", "failed", "escaped"}

Outcome(task, kind) ==
    CASE kind = "ok" ->
            Fulfilled(OnJson(task, CHOOSE b \in Bodies(task.provider, {}) : TRUE).value)
      [] kind = "failed" ->
            Fulfilled(FailedResult(task.provider, task.query, ErrorText(NetworkErrorMessage)))
      [] OTHER -> Rejected(NoValue, EscapedMessage)

JoinInit ==
    /\ tasks = BuildTasks(providers)
    /\ \E kinds \in [1..Len(BuildTasks(providers)) -> OutcomeKinds] :
          /\ promise = [i \in 1..Len(BuildTasks(providers)) |->
                           Outcome(BuildTasks(providers)[i], kinds[i])]
          /\ cause = kinds
    /\ pc = [i \in 1..Len(BuildTasks(providers)) |-> "done"]
    /\ timer = [i \in 1..Len(BuildTasks(providers)) |-> "cleared"]
    /\ outbound = [i \in 1..Len(BuildTasks(providers)) |-> 1]
    /\ timeUp = FALSE
    /\ outOfOrder = FALSE
    /\ ret = Pending(NoAggregate)
    /\ orch = "awaitAll"
    /\ faults = {}
    /\ NoGeneration
    /\ NoFormatting
    /\ NoHandling
    /\ NoSecrets

JoinNext == Join

JoinSpec == JoinInit /\ [][JoinNext]_vars

\* generateQueries called on its own, MaxGenerate times with the same
\* arguments.
GenerateQueries ==
    /\ Len(generated) < MaxGenerate
    /\ generated' = Append(generated, generateQueries(vendorName, servicesUsed))
    /\ UNCHANGED <<handlerVars, secretVars, callVars, vendorName, servicesUsed, aggregated, formatted>>

QueryInit ==
    /\ NoCalls
    /\ NoFormatting
    /\ vendorName \in VendorNames
    /\ servicesUsed \in ServicesTexts
    /\ generated = <<>>
    /\ NoHandling
    /\ NoSecrets

QueryNext == GenerateQueries

QuerySpec == QueryInit /\ [][QueryNext]_vars

\* formatResearchForPrompt called on its own.
Format ==
    /\ ~formatted.done
    /\ formatted' = [done |-> TRUE, text |-> formatResearchForPrompt(aggregated)]
    /\ UNCHANGED <<handlerVars, secretVars, callVars, vendorName, servicesUsed, generated, aggregated>>

FormatInit ==
    /\ NoCalls
    /\ NoGeneration
    /\ \E rs \in ResultLists : aggregated = [results |-> WithQueries(rs)]
    /\ formatted = NotFormatted
    /\ NoHandling
    /\ NoSecrets

FormatNext == Format

FormatSpec == FormatInit /\ [][FormatNext]_vars


(***************************************************************************)
(* handler: one action per turn, from a resumption to the next await       *)
(***************************************************************************)
\* The events of the history: a stage is called, returns or resolves, throws
\* or rejects.
Start(stage) == <<stage, "start">>
End(stage) == <<stage, "end">>
Threw(stage) == <<stage, "threw">>

\* The catch block: handler returns the error response.
Fail(message) ==
    /\ response' = Caught(message)
    /\ hpc' = "done"

\* handler is called: parseInput(event), then `await getSecrets()`.
HandlerCall ==
    /\ hpc = "start"
    /\ IF parseInput(event).threw
       THEN /\ Fail(parseInput(event).message)
            /\ stages' = <<Start("validation"), Threw("validation")>>
            /\ UNCHANGED input
       ELSE /\ input' = parseInput(event).value
            /\ stages' = <<Start("validation"), End("validation"), Start("secrets")>>
            /\ hpc' = "secrets"
            /\ UNCHANGED response
    /\ UNCHANGED <<callVars, pureVars, secretVars, event, research, researchText, report>>

\* getSecrets resolved: conductResearch is called and awaited.
SecretsResolve ==
    /\ hpc = "secrets"
    /\ stages' = stages \o <<End("secrets"), Start("research")>>
    /\ hpc' = "research"
    /\ UNCHANGED <<callVars, pureVars, secretVars, event, input, research, researchText,
                   report, response>>

SecretsReject ==
    /\ hpc = "secrets"
    /\ Fail(<<SecretsErrorMessage>>)
    /\ stages' = Append(stages, Threw("secrets"))
    /\ UNCHANGED <<callVars, pureVars, secretVars, event, input, research, researchText,
                   report>>

\* conductResearch resolved: formatResearchForPrompt(research), then
\* `await runAssessment(input, researchText, ...)`.
ResearchResolves ==
    /\ hpc = "research"
    /\ \E res \in ResearchValues :
          /\ research' = res
          /\ IF AfterResearch(res).threw
             THEN /\ Fail(AfterResearch(res).message)
                  /\ stages' = Append(stages, End("research"))
                  /\ UNCHANGED researchText
             ELSE /\ researchText' = AfterResearch(res).value
                  /\ stages' = stages \o <<End("research"), Start("synthesis")>>
                  /\ hpc' = "synthesis"
                  /\ UNCHANGED response
    /\ UNCHANGED <<callVars, pureVars, secretVars, event, input, report>>

ResearchRejects ==
    /\ hpc = "research"
    /\ Fail(<<ResearchErrorMessage>>)
    /\ stages' = Append(stages, Threw("research"))
    /\ UNCHANGED <<callVars, pureVars, secretVars, event, input, research, researchText,
                   report>>

\* runAssessment resolved: generateMarkdown(input, report), which throws on
\* a report that lacks a list it iterates, then `await generateDocx(...)`.
SynthesisResolves ==
    /\ hpc = "synthesis"
    /\ \E rep \in Reports, wellFormed \in BOOLEAN :
          /\ report' = rep
          /\ IF wellFormed
             THEN /\ stages' = stages \o <<End("synthesis"), Start("report")>>
                  /\ hpc' = "docx"
                  /\ UNCHANGED response
             ELSE /\ stages' = stages \o <<End("synthesis"), Start("report"), Threw("report")>>
                  /\ Fail(<<MarkdownErrorMessage>>)
    /\ UNCHANGED <<callVars, pureVars, secretVars, event, input, research, researchText>>

SynthesisRejects ==
    /\ hpc = "synthesis"
    /\ Fail(<<SynthesisErrorMessage>>)
    /\ stages' = Append(stages, Threw("synthesis"))
    /\ UNCHANGED <<callVars, pureVars, secretVars, event, input, research, researchText,
                   report>>

\* generateDocx resolved: the output is assembled and returned with 200.
DocxResolves ==
    /\ hpc = "docx"
    /\ response' = Fulfilled(CompleteResponse(input, report, research,
                                              "<markdown>", "<docx>"))
    /\ hpc' = "done"
    /\ stages' = Append(stages, End("report"))
    /\ UNCHANGED <<callVars, pureVars, secretVars, event, input, research, researchText,
                   report>>

DocxRejects ==
    /\ hpc = "docx"
    /\ Fail(<<DocxErrorMessage>>)
    /\ stages' = Append(stages, Threw("report"))
    /\ UNCHANGED <<callVars, pureVars, secretVars, event, input, research, researchText,
                   report>>

(***************************************************************************)
(* getSecrets: the call, the answer of Secrets Manager, the clock          *)
(***************************************************************************)
\* One entry of the history: a call made at `at`, returning at `back`.
Got(at, back, from, outcome, answer) ==
    [called |-> at, at |-> back, from |-> from, threw |-> outcome.threw,
     value |-> outcome.value, message |-> outcome.message,
     obtainable |-> Obtainable(answer)]

\* getSecrets is called: the cache check, the environment, and if neither
\* gives the keys `await client.send(command)`.
GetSecrets ==
    /\ sm = "idle"
    /\ Len(got) < MaxGets
    /\ called' = now
    /\ IF Fresh(cached, cacheExpiry, now)
       THEN /\ got' = Append(got, Got(now, now, "cache", Returns(cached), vault))
            /\ UNCHANGED <<cached, cacheExpiry, sm>>
       ELSE IF getFromEnv(env).value # NoSecretsValue
       THEN /\ cached' = getFromEnv(env).value
            /\ cacheExpiry' = now + CACHE_TTL_MS
            /\ got' = Append(got, Got(now, now, "env", getFromEnv(env), vault))
            /\ UNCHANGED sm
       ELSE /\ sm' = "sending"
            /\ UNCHANGED <<cached, cacheExpiry, got>>
    /\ UNCHANGED <<callVars, pureVars, handlerVars, env, vault, now>>

\* client.send resolved.
SendResolves ==
    /\ sm = "sending"
    /\ vault.kind # "rejects"
    /\ IF AfterSend(vault).threw
       THEN UNCHANGED <<cached, cacheExpiry>>
       ELSE /\ cached' = AfterSend(vault).value
            /\ cacheExpiry' = now + CACHE_TTL_MS
    /\ got' = Append(got, Got(called, now, "vault", AfterSend(vault), vault))
    /\ sm' = "idle"
    /\ UNCHANGED <<callVars, pureVars, handlerVars, env, vault, now, called>>

\* client.send rejected: getSecrets rejects with its error.
SendRejects ==
    /\ sm = "sending"
    /\ vault.kind = "rejects"
    /\ got' = Append(got, Got(called, now, "vault",
                              Throws(NoSecretsValue, <<VaultErrorMessage>>), vault))
    /\ sm' = "idle"
    /\ UNCHANGED <<callVars, pureVars, handlerVars, env, vault, cached, cacheExpiry, now,
                   called>>

\* Time passes.
Tick ==
    /\ sm \in {"idle", "sending"}
    /\ \E t \in Times : t > now /\ now' = t
    /\ UNCHANGED <<callVars, pureVars, handlerVars, env, vault, cached, cacheExpiry, sm,
                   called, got>>

\* The secret is changed, or Secrets Manager starts or stops answering,
\* between two calls.
VaultChanges ==
    /\ sm = "idle"
    /\ Len(got) < MaxGets
    /\ \E v \in VaultAnswers : v # vault /\ vault' = v
    /\ UNCHANGED <<callVars, pureVars, handlerVars, env, cached, cacheExpiry, now, sm,
                   called, got>>

\* handler called once with any of the requests.
HandlerInit ==
    /\ NoCalls
    /\ NoGeneration
    /\ NoFormatting
    /\ NoSecrets
    /\ event \in Events
    /\ hpc = "start"
    /\ input = NoInput
    /\ research = NoAggregate
    /\ researchText = <<>>
    /\ report = NoReport
    /\ stages = <<>>
    /\ response = Pending(NoResponse)

HandlerNext ==
    \/ HandlerCall
    \/ SecretsResolve
    \/ SecretsReject
    \/ ResearchResolves
    \/ ResearchRejects
    \/ SynthesisResolves
    \/ SynthesisRejects
    \/ DocxResolves
    \/ DocxRejects

HandlerSpec == HandlerInit /\ [][HandlerNext]_vars

\* getSecrets called up to MaxGets times in one process, one call at a time.
SecretsInit ==
    /\ NoCalls
    /\ NoGeneration
    /\ NoFormatting
    /\ NoHandling
    /\ env \in Envs
    /\ vault \in VaultAnswers
    /\ cached = NoSecretsValue
    /\ cacheExpiry = 0
    /\ now = 0
    /\ sm = "idle"
    /\ called = 0
    /\ got = <<>>

SecretsNext ==
    \/ GetSecrets
    \/ SendResolves
    \/ SendRejects
    \/ Tick
    \/ VaultChanges

SecretsSpec == SecretsInit /\ [][SecretsNext]_vars


(***************************************************************************)
(* Properties                                                              *)
(***************************************************************************)
Results == ret.value.results

\* The sources of the results, in the order conductResearch scans them.
RECURSIVE FlatSources(_)
FlatSources(results) ==
    IF results = <<>> THEN <<>>
    ELSE [k \in 1..Len(Head(results).sources.items) |->
              Head(results).sources.items[k].items]
         \o FlatSources(Tail(results))

\* C1: conductResearch returns one result per task, 9 in all, and results[i]
\* is the outcome of the i-th task in provider-major, query-minor order
\* (Perplexity q1..q3, Gemini q1..q3, Grok q1..q3), whatever the completion
\* order was.
C1_ResultsInDispatchOrder ==
    orch = "returned" =>
        /\ Len(Results) = 9
        /\ \A i \in 1..9 :
              LET p == providers[((i - 1) \div 3) + 1]
              IN  /\ Results[i] = promise[i].value
                  /\ Results[i].provider = p
                  /\ Results[i].query = queries[p][((i - 1) % 3) + 1]

\* C1 witness: conductResearch has returned after a run in which some call
\* ended before a call dispatched earlier.
C1_Witness == orch = "returned" /\ outOfOrder

\* C2: conductResearch has not resumed (aggregated, returned or rejected)
\* while a dispatched call is still pending, whether or not some call failed.
C2_JoinAfterAllSettled ==
    /\ orch \in {"returned", "rejected"} => \A i \in Calls : promise[i].status # "pending"
    /\ ret.status # "pending" => \A i \in Calls : promise[i].status # "pending"

\* C2 witness: a call has failed, another is still in flight, and
\* conductResearch is still waiting.
C2_Witness ==
    /\ orch = "awaitAll"
    /\ ret.status = "pending"
    /\ \E i, j \in Calls :
          /\ promise[i].status = "fulfilled" /\ ~promise[i].value.success
          /\ pc[j] \in {"fetch", "json", "text"}

\* C3: every call is issued before any outcome is awaited: when conductResearch
\* waits, and whenever some call has settled, all calls have been issued.
C3_AllIssuedBeforeAnyOutcome ==
    /\ orch # "dispatch" => Issued = Calls
    /\ Settled # {} => Issued = Calls

\* C3 witness: the first call is still waiting for its response while the
\* last call, issued with it, has already ended.
C3_Witness ==
    /\ Issued = Calls
    /\ pc[1] = "fetch"
    /\ promise[9].status = "fulfilled"

\* C4: search never rejects, and a call ended by a network error, a non-2xx
\* response, a timeout abort or an unparseable body fulfils with
\* success=false, content '', sources [] and an error string.
C4_SearchNeverRejects ==
    \A i \in Calls :
        /\ promise[i].status # "rejected"
        /\ pc[i] = "done" => promise[i].status = "fulfilled"
        /\ cause[i] \in {"network", "http", "timeout", "parse"} =>
              /\ promise[i].status = "fulfilled"
              /\ promise[i].value.success = FALSE
              /\ promise[i].value.content = ""
              /\ promise[i].value.sources = JArray(<<>>)
              /\ promise[i].value.error # NoError

\* C4 witness: one call ended by a non-2xx response, one by the timeout
\* abort, one by an unparseable body.
C4_Witness ==
    /\ cause[1] = "http"
    /\ cause[2] = "timeout"
    /\ cause[3] = "parse"

\* C5: the timeout covers the whole call: once timeoutMs has elapsed and the
\* timer of a call is not waiting to fire, that call has ended.
C5_TimeoutCoversWholeCall ==
    \A i \in Issued : (timeUp /\ timer[i] # "armed") => pc[i] = "done"

\* C6: when every call has failed, conductResearch does not throw; it returns
\* 9 results, all with success=false, successCount 0 and failureCount 9.
C6_AllFailedStillResolves ==
    (\A i \in Calls : promise[i].status = "fulfilled" /\ ~promise[i].value.success) =>
        /\ ~Aggregate(promise, tasks).threw
        /\ orch # "rejected"
        /\ orch = "returned" =>
              /\ ret.status = "fulfilled"
              /\ Len(Results) = 9
              /\ \A i \in 1..Len(Results) : ~Results[i].success
              /\ ret.value.successCount = 0
              /\ ret.value.failureCount = 9

\* C6 witness: conductResearch has returned and every fetch was rejected with
\* a network error.
C6_Witness ==
    /\ orch = "returned"
    /\ \A i \in Calls : cause[i] = "network"

\* C7: in every returned value successCount counts the results with
\* success=true, failureCount those with success=false, and their sum is the
\* number of results, which is the number of tasks.
C7_CountsPartitionResults ==
    orch = "returned" =>
        LET n == Len(Results)
        IN  /\ ret.value.successCount = Cardinality({i \in 1..n : Results[i].success})
            /\ ret.value.failureCount = Cardinality({i \in 1..n : ~Results[i].success})
            /\ ret.value.successCount + ret.value.failureCount = n
            /\ n = Len(tasks)

\* C7 witness: a returned value with 4 successes and 5 failures.
C7_Witness ==
    /\ orch = "returned"
    /\ ret.value.successCount = 4
    /\ ret.value.failureCount = 5

\* C8: once the provider clients are constructed, conductResearch never
\* rejects.
C8_NeverRejects == orch # "rejected" /\ ret.status # "rejected"

\* C9: allSources is the sequence of the first occurrences, in scan order, of
\* each distinct trimmed-and-lowercased citation among the results' sources,
\* each entry being the original string of that first occurrence.
C9_AllSourcesFirstOccurrences ==
    orch = "returned" =>
        LET flat == FlatSources(Results)
            key(j) == toLowerCase(trim(flat[j]))
            firsts == {j \in 1..Len(flat) : \A h \in 1..(j - 1) : key(h) # key(j)}
            nth(n) == CHOOSE j \in firsts : Cardinality({h \in firsts : h <= j}) = n
            all == ret.value.allSources
        IN  /\ Len(all) = Cardinality(firsts)
            /\ \A n \in 1..Len(all) : all[n] = flat[nth(n)]
            /\ \A j \in 1..Len(flat) : \E n \in 1..Len(all) :
                  toLowerCase(trim(all[n])) = key(j)
            /\ \A m, n \in 1..Len(all) :
                  m # n => toLowerCase(trim(all[m])) # toLowerCase(trim(all[n]))

\* C9 witness: three citations that differ only by case and surrounding
\* white space were returned by two tasks, and allSources holds the one
\* un-normalised string that came first.
C9_Witness ==
    /\ orch = "returned"
    /\ FlatSources(Results) = <<ExampleComUpper, ExampleCom, ExampleCom>>
    /\ ret.value.allSources = <<ExampleComUpper>>

\* Tasks i and j are the only ones with sources: a and b, one each.
OnlySources(i, a, j, b) ==
    /\ i # j
    /\ Results[i].sources = JArray(<<JString(a)>>)
    /\ Results[j].sources = JArray(<<JString(b)>>)
    /\ \A k \in 1..Len(Results) : k \notin {i, j} => Results[k].sources = JArray(<<>>)

Earlier(i, a, j, b) == IF i < j THEN a ELSE b

\* C10 as stated: "https://example.com" from one task and
\* "https://EXAMPLE.com/ " from another give one entry in allSources, the
\* string of the task that is first in dispatch order.
C10_SlashVariantCollapses ==
    orch = "returned" =>
        \A i, j \in 1..Len(Results) :
            OnlySources(i, ExampleCom, j, ExampleComUpperSlash) =>
                ret.value.allSources = <<Earlier(i, ExampleCom, j, ExampleComUpperSlash)>>

\* C10 amended: "https://example.com" and "https://EXAMPLE.com/ " do not
\* collapse (they differ by the trailing slash once trimmed and lowercased):
\* allSources holds both strings, in dispatch order.  "https://example.com"
\* and "https://EXAMPLE.com " (case and surrounding white space only) give
\* one entry, the string of the task that is first in dispatch order.  The
\* completion order plays no part in either.
C10_DedupByDispatchOrder ==
    orch = "returned" =>
        \A i, j \in 1..Len(Results) :
            /\ OnlySources(i, ExampleCom, j, ExampleComUpperSlash) =>
                  ret.value.allSources =
                      IF i < j THEN <<ExampleCom, ExampleComUpperSlash>>
                      ELSE <<ExampleComUpperSlash, ExampleCom>>
            /\ OnlySources(i, ExampleCom, j, ExampleComUpper) =>
                  ret.value.allSources = <<Earlier(i, ExampleCom, j, ExampleComUpper)>>

\* C10 witness: the task with "https://EXAMPLE.com " is dispatched before the
\* task with "https://example.com", some call overtook an earlier one, and
\* allSources is the single string "https://EXAMPLE.com ".
C10_Witness ==
    /\ orch = "returned"
    /\ outOfOrder
    /\ OnlySources(1, ExampleComUpper, 3, ExampleCom)
    /\ ret.value.allSources = <<ExampleComUpper>>

\* C11: every call has its own AbortController and its own timer: a step in
\* which the timer of a call fires changes nothing of any other call (its
\* position, its timer, its promise), and no step ends more than one call
\* by a timeout abort.
C11_TimeoutAbortsOnlyItsCall ==
    [][/\ \A i \in Calls :
             (timer[i] = "armed" /\ timer'[i] = "fired") =>
                 \A j \in Calls \ {i} :
                     /\ pc'[j] = pc[j]
                     /\ timer'[j] = timer[j]
                     /\ promise'[j] = promise[j]
                     /\ cause'[j] = cause[j]
       /\ Cardinality({i \in Calls : cause[i] # "timeout" /\ cause'[i] = "timeout"}) <= 1
      ]_vars

\* C11 witness: the timer of the first call has fired and aborted it, while
\* the second call is still waiting for its response with its timer armed
\* and the third is reading its body.
C11_Witness ==
    /\ timer[1] = "fired" /\ cause[1] = "timeout"
    /\ pc[2] = "fetch" /\ timer[2] = "armed" /\ promise[2].status = "pending"
    /\ pc[3] = "json" /\ timer[3] = "cleared"

\* C12: no call of search calls fetch more than once, a call that was issued
\* has called it exactly once, and when conductResearch has resumed the
\* outbound calls of the run are as many as the tasks.
C12_OneOutboundCallPerTask ==
    /\ \A i \in Calls : outbound[i] = (IF i \in Issued THEN 1 ELSE 0)
    /\ orch \in {"returned", "rejected"} =>
          Cardinality({i \in Calls : outbound[i] = 1}) = Len(tasks)

\* C12 witness: conductResearch has returned after a run in which the fetch
\* of the first call was rejected and the second call succeeded.
C12_Witness ==
    /\ orch = "returned"
    /\ cause[1] = "network" /\ ~Results[1].success
    /\ cause[2] = "ok" /\ Results[2].success
    /\ \A i \in Calls : outbound[i] = 1

\* C13: providersUsed lists, each once, exactly the providers that have a
\* result with success=true: all three when the 9 calls succeeded, none
\* when all failed.
C13_ProvidersUsedAreTheSuccessful ==
    orch = "returned" =>
        LET used == ret.value.providersUsed
            successful == {Results[i].provider : i \in {k \in 1..Len(Results) : Results[k].success}}
        IN  /\ {used[n] : n \in 1..Len(used)} = successful
            /\ Len(used) = Cardinality(successful)
            /\ (\A i \in 1..Len(Results) : Results[i].success) =>
                  {used[n] : n \in 1..Len(used)} = {"Perplexity", "Gemini", "Grok"}
            /\ (\A i \in 1..Len(Results) : ~Results[i].success) => used = <<>>

\* C13 witness: every Gemini call failed, Perplexity and Grok each have a
\* failed and a successful call, and providersUsed names these two.
C13_Witness ==
    /\ orch = "returned"
    /\ \A i \in 4..6 : ~Results[i].success
    /\ ~Results[1].success /\ Results[2].success
    /\ Results[7].success /\ ~Results[8].success
    /\ ret.value.providersUsed = <<"Perplexity", "Grok">>

\* C14: a call that got a 2xx response whose body is a JSON object without
\* the fields the client reads fulfils with success=true, content '' and
\* sources [], and no error.
C14_MissingFieldsDegradeToEmpty ==
    \A i \in Calls :
        cause[i] = "shape" =>
            /\ promise[i].status = "fulfilled"
            /\ promise[i].value.success = TRUE
            /\ promise[i].value.content = ""
            /\ promise[i].value.sources = JArray(<<>>)
            /\ promise[i].value.error = NoError

\* C14 witness: each of the three clients got a 2xx JSON object without the
\* expected fields.
C14_Witness == \A i \in Calls : cause[i] = "shape" /\ pc[i] = "done"

AllQueries(q) ==
    {q.perplexity[n] : n \in 1..Len(q.perplexity)}
    \cup {q.gemini[n] : n \in 1..Len(q.gemini)}
    \cup {q.grok[n] : n \in 1..Len(q.grok)}

C18_ServicesInThirdQueryOnly ==
    \A k \in 1..Len(generated) :
        LET q == generated[k]
            short == SubSeq(q.perplexity[1], 1, Len(q.perplexity[1]) - Len(Perplexity1))
            t == servicesUsed.items
        IN  /\ q.perplexity[1] = short \o Perplexity1
            /\ q.perplexity[2] = short \o Perplexity2
            /\ q.gemini[1] = short \o Gemini1
            /\ q.gemini[2] = short \o Gemini2
            /\ q.grok[1] = short \o Grok1
            /\ q.grok[2] = short \o Grok2
            /\ IF servicesUsed.t = "string" /\ t # <<>>
               THEN /\ q.perplexity[3] = short \o Perplexity3 \o <<" ">> \o t
                    /\ q.gemini[3] = short \o Gemini3Head \o <<" ">> \o t \o Gemini3Tail
                    /\ q.grok[3] = short \o Grok3Head \o <<" ">> \o t \o Grok3Tail
                    /\ \A n \in 1..3 :
                          /\ Contains(q.perplexity[n], t) <=> n = 3
                          /\ Contains(q.gemini[n], t) <=> n = 3
                          /\ Contains(q.grok[n], t) <=> n = 3
               ELSE /\ q.perplexity[3] = short \o Perplexity3
                    /\ q.gemini[3] = short \o Gemini3Head \o Gemini3Tail
                    /\ q.grok[3] = short \o Grok3Head \o Grok3Tail

\* C18 witness: the queries generated for "Acme Corp." with the services
\* text "cloud hosting".
C18_Witness ==
    /\ vendorName = AcmeCorp
    /\ servicesUsed = JString(CloudHosting)
    /\ Len(generated) >= 1
    /\ Contains(generated[1].grok[3], CloudHosting)

\* The positions of a fragment in a text, the n-th element of a set of
\* positions, and the fragments that follow each occurrence of a marker.
Positions(text, marker) == {i \in 1..Len(text) : text[i] = marker}

NthOf(S, n) == CHOOSE i \in S : Cardinality({h \in S : h <= i}) = n

Following(text, marker) ==
    [n \in 1..Cardinality(Positions(text, marker)) |->
        text[NthOf(Positions(text, marker), n) + 1]]

\* C19: for every failed result the text holds its query line followed by
\* the line '*Failed: <error>*' with the result's error string; when every
\* result is failed the text has one failure marker for each query and holds
\* no content, not even of a failed result that kept one.
C19_FailedResultsAreMarked ==
    formatted.done =>
        LET rs == aggregated.results
            failed == {i \in 1..Len(rs) : ~rs[i].success}
        IN  /\ \A i \in failed :
                  Contains(formatted.text,
                           <<"**Query:** ", rs[i].query, "\n", "*Failed: ">>
                           \o rs[i].error \o <<"*\n">>)
            /\ Cardinality(Positions(formatted.text, "*Failed: ")) = Cardinality(failed)
            /\ failed = 1..Len(rs) =>
                  /\ Len(Following(formatted.text, "**Query:** ")) = Len(rs)
                  /\ \A j \in 1..Len(formatted.text) :
                        /\ formatted.text[j] \notin {rs[i].content : i \in 1..Len(rs)}
                        /\ formatted.text[j] \notin {"\n**Sources:**", "- "}

\* C19 witness: three results, all failed, one of them with a content, have
\* been formatted.
C19_Witness ==
    /\ formatted.done
    /\ Len(aggregated.results) = 3
    /\ \A i \in 1..3 : ~aggregated.results[i].success
    /\ aggregated.results[2].content = "partial answer"
    /\ aggregated.results[1].provider # aggregated.results[2].provider

\* C20: the section headers of the text are the labels of the providers in
\* the order of their first result in aggregated.results, and the query
\* lines are those of the results that emit one, ordered by the first
\* appearance of their provider and then by their own position, each under
\* the header of its provider.
C20_SectionsInFirstSeenOrder ==
    formatted.done =>
        LET rs == aggregated.results
            text == formatted.text
            first(i) == CHOOSE h \in 1..i :
                            /\ rs[h].provider = rs[i].provider
                            /\ \A g \in 1..(h - 1) : rs[g].provider # rs[i].provider
            firsts == {i \in 1..Len(rs) : first(i) = i}
            emitted == {i \in 1..Len(rs) : ~rs[i].success \/ rs[i].content # ""}
            notAfter(h, i) == first(h) < first(i) \/ (first(h) = first(i) /\ h <= i)
            idx(n) == CHOOSE i \in emitted :
                          Cardinality({h \in emitted : notAfter(h, i)}) = n
            headers == Following(text, "### ")
            qs == Following(text, "**Query:** ")
        IN  /\ Len(headers) = Cardinality(firsts)
            /\ \A n \in 1..Len(headers) :
                  headers[n] = ProviderLabel(rs[NthOf(firsts, n)].provider)
            /\ Len(qs) = Cardinality(emitted)
            /\ \A n \in 1..Len(qs) :
                  /\ qs[n] = rs[idx(n)].query
                  /\ LET at == NthOf(Positions(text, "**Query:** "), n)
                         above == {h \in Positions(text, "### ") : h < at}
                     IN  /\ above # {}
                         /\ text[NthOf(above, Cardinality(above)) + 1] =
                               ProviderLabel(rs[idx(n)].provider)

\* C20 witness: the results of Grok, Perplexity and Grok again, each with a
\* query line, have been formatted: the text has the Grok section with the
\* first and the third query, then the Perplexity section.
C20_Witness ==
    /\ formatted.done
    /\ Len(aggregated.results) = 3
    /\ aggregated.results[1].provider = "Grok"
    /\ aggregated.results[2].provider = "Perplexity"
    /\ aggregated.results[3].provider = "Grok"
    /\ Following(formatted.text, "### ") =
          <<ProviderLabel("Grok"), ProviderLabel("Perplexity")>>
    /\ Following(formatted.text, "**Query:** ") =
          <<"test query 1", "test query 3", "test query 2">>

\* C21: a result with success=true and empty content leaves nothing in the
\* text: its query is no fragment of it, its source is not listed, and the
\* query lines, failure markers and source lists of the text are as many as
\* the other results account for.
C21_EmptySuccessEmitsNothing ==
    formatted.done =>
        LET rs == aggregated.results
            text == formatted.text
            silent == {i \in 1..Len(rs) : rs[i].success /\ rs[i].content = ""}
            withContent == {i \in 1..Len(rs) : rs[i].success /\ rs[i].content # ""}
            failed == {i \in 1..Len(rs) : ~rs[i].success}
        IN  /\ \A i \in silent :
                  /\ \A j \in 1..Len(text) : text[j] # rs[i].query
                  /\ \A k \in 1..Len(rs[i].sources.items) :
                        ~Contains(text, <<"- ">> \o rs[i].sources.items[k].items)
            /\ Cardinality(Positions(text, "**Query:** ")) =
                  Cardinality(withContent) + Cardinality(failed)
            /\ Cardinality(Positions(text, "*Failed: ")) = Cardinality(failed)
            /\ Cardinality(Positions(text, "\n**Sources:**")) =
                  Cardinality({i \in withContent : rs[i].sources.items # <<>>})

\* C21 witness: a Perplexity result with success, a source and no content,
\* followed by a Perplexity result with content, has been formatted.
C21_Witness ==
    /\ formatted.done
    /\ Len(aggregated.results) = 2
    /\ aggregated.results[1] =
          ResearchResult("Perplexity", "test query 1", "",
                         JArray(<<JString(ExampleComUpper)>>), TRUE, NoError)
    /\ aggregated.results[2].provider = "Perplexity"
    /\ aggregated.results[2].content = "Found certifications"
    /\ Following(formatted.text, "**Query:** ") = <<"test query 2">>

\* C30: the text has one section header for each distinct provider name of
\* aggregated.results and no other, whether or not a result of that provider
\* emits anything; the header of a provider whose results are all successes
\* without content is followed at once by the next header or by the end of
\* the text.
C30_OneHeaderPerProvider ==
    formatted.done =>
        LET rs == aggregated.results
            text == formatted.text
            names == {rs[i].provider : i \in 1..Len(rs)}
            bare == {p \in names :
                        \A i \in 1..Len(rs) :
                            rs[i].provider = p => rs[i].success /\ rs[i].content = ""}
            headerOf(p) == {j \in Positions(text, "### ") : text[j + 1] = ProviderLabel(p)}
        IN  /\ Cardinality(Positions(text, "### ")) = Cardinality(names)
            /\ \A p \in names : Cardinality(headerOf(p)) = 1
            /\ \A p \in bare :
                  \A j \in headerOf(p) :
                      /\ text[j + 2] = "\n"
                      /\ \/ Len(text) = j + 2
                         \/ /\ Len(text) >= j + 4
                            /\ text[j + 3] = "\n"
                            /\ text[j + 4] = "### "

\* C30 witness: Gemini has two results, both successes without content, and
\* Grok a failed one: the text is the Gemini header, a blank line, and the
\* Grok section.
C30_Witness ==
    /\ formatted.done
    /\ Len(aggregated.results) = 3
    /\ \A i \in {1, 3} :
          /\ aggregated.results[i].provider = "Gemini"
          /\ aggregated.results[i].success
          /\ aggregated.results[i].content = ""
    /\ aggregated.results[2].provider = "Grok"
    /\ ~aggregated.results[2].success
    /\ SubSeq(formatted.text, 1, 6) =
          <<"### ", ProviderLabel("Gemini"), "\n", "\n", "### ", ProviderLabel("Grok")>>

\* C24: at the position of a task whose promise was rejected the results
\* hold a result with the task's provider and query, success=false, content
\* '', sources [] and the message of the escaped error; the results are as
\* many as the tasks, and at the other positions they are the values the
\* promises were fulfilled with.
C24_RejectedTaskIsSynthesized ==
    orch # "rejected" /\
    (orch = "returned" =>
        /\ Len(Results) = Len(tasks)
        /\ \A i \in 1..Len(tasks) :
              IF promise[i].status = "rejected"
              THEN /\ Results[i].provider = tasks[i].provider
                   /\ Results[i].query = tasks[i].query
                   /\ Results[i].success = FALSE
                   /\ Results[i].content = ""
                   /\ Results[i].sources = JArray(<<>>)
                   /\ Results[i].error = <<promise[i].reason>>
              ELSE Results[i] = promise[i].value
        /\ ret.value.failureCount =
              Cardinality({i \in 1..Len(tasks) : cause[i] \in {"failed", "escaped"}}))

\* C24 witness: conductResearch has returned after the promises of the
\* second and the last task were rejected, the first was fulfilled with a
\* success and the third with a failed result.
C24_Witness ==
    /\ orch = "returned"
    /\ promise[2].status = "rejected"
    /\ promise[9].status = "rejected"
    /\ cause[1] = "ok" /\ Results[1].success
    /\ cause[3] = "failed"
    /\ Results[2].error = <<EscapedMessage>>

\* C27: the timer of a call that has ended is not pending: it has fired or
\* it has been cleared.
C27_NoTimerPendingAfterReturn ==
    \A i \in Calls : pc[i] = "done" => timer[i] \in {"fired", "cleared"}

\* What the claims about handler call a problem of the request, read off the
\* request itself: the body is missing, a required field is missing or
\* empty (white space aside), assessmentType or dataRole is not allowed.
BodyMissing == event.body \in {"null", "empty"}

FieldMissingOrEmpty(key) ==
    /\ event.body = "object"
    /\ \/ event.fields[key].t # "string"
       \/ trim(event.fields[key].items) = <<>>

SomeFieldMissingOrEmpty == \E i \in 1..Len(RequiredKeys) : FieldMissingOrEmpty(RequiredKeys[i])

NotAllowed(key, allowed) ==
    /\ event.body = "object"
    /\ event.fields[key].t = "string"
    /\ \A i \in 1..Len(allowed) : trim(event.fields[key].items) # allowed[i]

BadRequest ==
    \/ BodyMissing
    \/ SomeFieldMissingOrEmpty
    \/ NotAllowed("assessmentType", VALID_ASSESSMENT_TYPES)
    \/ NotAllowed("dataRole", VALID_DATA_ROLES)

StagesStarted == {stages[i][1] : i \in {h \in 1..Len(stages) : stages[h][2] = "start"}}

\* C22: once handler has run on a request whose body is missing, or in which
\* a required field is missing or empty, or whose assessmentType or dataRole
\* is not an allowed value, it has returned statusCode 500 with status
\* 'error' and a non-empty error message that names the problem (the field,
\* or the value that is not allowed), and no stage other than validation was
\* started: no secrets retrieval, research, synthesis or report generation.
C22_InvalidRequestGives500 ==
    (hpc # "start" /\ BadRequest) =>
        /\ hpc = "done"
        /\ response.status = "fulfilled"
        /\ response.value.statusCode = 500
        /\ response.value.body.status = "error"
        /\ response.value.body.error # <<>>
        /\ BodyMissing => response.value.body.error = <<"Request body is required">>
        /\ SomeFieldMissingOrEmpty =>
              \E i \in 1..Len(RequiredKeys) :
                 /\ FieldMissingOrEmpty(RequiredKeys[i])
                 /\ response.value.body.error
                       = <<"Missing or empty required field: ", RequiredKeys[i]>>
        /\ (~SomeFieldMissingOrEmpty /\ NotAllowed("assessmentType", VALID_ASSESSMENT_TYPES)) =>
              /\ response.value.body.error[1] = "Invalid assessmentType: "
              /\ StartsWith(Tail(response.value.body.error),
                            trim(event.fields["assessmentType"].items))
        /\ (~SomeFieldMissingOrEmpty
            /\ ~NotAllowed("assessmentType", VALID_ASSESSMENT_TYPES)
            /\ NotAllowed("dataRole", VALID_DATA_ROLES)) =>
              /\ response.value.body.error[1] = "Invalid dataRole: "
              /\ StartsWith(Tail(response.value.body.error),
                            trim(event.fields["dataRole"].items))
        /\ StagesStarted = {"validation"}

\* C22 witness: handler has answered a request whose vendorName is a string
\* of white space and whose other fields are valid.
C22_Witness ==
    /\ hpc = "done"
    /\ response.value.statusCode = 500
    /\ event.body = "object"
    /\ event.fields["vendorName"] = JString(<<" ", " ">>)
    /\ \A i \in 2..Len(RequiredKeys) : ~FieldMissingOrEmpty(RequiredKeys[i])
    /\ ~NotAllowed("assessmentType", VALID_ASSESSMENT_TYPES)
    /\ ~NotAllowed("dataRole", VALID_DATA_ROLES)

StagesThrew == {stages[i][1] : i \in {h \in 1..Len(stages) : stages[h][2] = "threw"}}

StagesEnded == {stages[i][1] : i \in {h \in 1..Len(stages) : stages[h][2] = "end"}}

Pipeline == <<"validation", "secrets", "research", "synthesis", "report">>

\* Every stage of the pipeline started and ended, one after the other.
RanInOrder ==
    stages = <<Start("validation"), End("validation"), Start("secrets"), End("secrets"),
               Start("research"), End("research"), Start("synthesis"), End("synthesis"),
               Start("report"), End("report")>>

\* A stage is started only when every stage before it in the pipeline has
\* ended.
OneStageAtATime ==
    \A n \in 1..Len(Pipeline) :
        Pipeline[n] \in StagesStarted =>
            \A h \in 1..(n - 1) : Pipeline[h] \in StagesEnded

\* C23: a stage of handler is started only after the stages before it have
\* ended; and when handler is done with a valid request and no stage threw
\* or rejected, the history of the stages is exactly validation, secrets
\* retrieval, research, synthesis, report generation, each started after the
\* one before it ended, and the response is statusCode 200 with status
\* 'complete', the vendorName of the request (as parseInput read it, without
\* the white space around it) and the ragStatus of the synthesis report.
C23_ValidRequestRunsStagesInOrder ==
    /\ OneStageAtATime
    /\ (hpc = "done" /\ ~BadRequest /\ event.body = "object" /\ StagesThrew = {}) =>
          /\ RanInOrder
          /\ response.status = "fulfilled"
          /\ response.value.statusCode = 200
          /\ response.value.body.status = "complete"
          /\ response.value.body.vendorName = trim(event.fields["vendorName"].items)
          /\ response.value.body.ragStatus = report.ragStatus
          /\ report \in Reports

\* C23 witness: the request of the handler test ('TestVendor, Inc.') was
\* answered with 200 and the AMBER report.
C23_Witness ==
    /\ hpc = "done"
    /\ RanInOrder
    /\ event.fields["vendorName"] = JString(TestVendorInc)
    /\ response.value.statusCode = 200
    /\ response.value.body.vendorName = TestVendorInc
    /\ response.value.body.ragStatus = "AMBER"

ErrorOutput ==
    /\ response.value.statusCode = 500
    /\ response.value.body.status = "error"
    /\ response.value.body.ragStatus = "RED"
    /\ response.value.body.recommendation = "REJECT"
    /\ response.value.body.riskLevel = "CRITICAL"
    /\ response.value.body.executiveSummary = ""
    /\ response.value.body.reportMarkdown = ""
    /\ response.value.body.reportDocxBase64 = ""
    /\ response.value.body.reportFilename = <<>>
    /\ response.value.body.vendorName = <<>>
    /\ response.value.body.researchSources = <<>>

\* C28: the promise handler returned is never rejected; once a stage has
\* thrown or rejected, handler is done and its promise is fulfilled with a
\* 500 response whose status is 'error', ragStatus 'RED', recommendation
\* 'REJECT', riskLevel 'CRITICAL' and whose report fields are empty; and a
\* 200 response is there only when all five stages have ended.
C28_HandlerNeverRejects ==
    /\ response.status # "rejected"
    /\ hpc = "done" => response.status = "fulfilled"
    /\ StagesThrew # {} =>
          /\ hpc = "done"
          /\ response.status = "fulfilled"
          /\ ErrorOutput
          /\ response.value.body.error # <<>>
    /\ (response.status = "fulfilled" /\ response.value.statusCode = 200) =>
          /\ StagesThrew = {}
          /\ \A n \in 1..Len(Pipeline) : Pipeline[n] \in StagesEnded

\* C28 witness: synthesis rejected and handler answered 500 with the message
\* of the error.
C28_Witness ==
    /\ hpc = "done"
    /\ StagesThrew = {"synthesis"}
    /\ response.status = "fulfilled"
    /\ ErrorOutput
    /\ response.value.body.error = <<SynthesisErrorMessage>>

\* C29: once conductResearch has resolved, synthesis has been started, with
\* the research text, also when successCount is 0; and if handler then
\* answers with an error, it is because synthesis or report generation threw
\* or rejected, not because of the research.
C29_SynthesisStartsAfterAnyResearch ==
    "research" \in StagesEnded =>
        /\ "synthesis" \in StagesStarted
        /\ researchText = formatResearchForPrompt(research)
        /\ (hpc = "done" /\ response.value.statusCode # 200) =>
              StagesThrew \cap {"synthesis", "report"} # {}

\* C29 witness: every task of the research failed, synthesis was started and
\* handler answered 200.
C29_Witness ==
    /\ "research" \in StagesEnded
    /\ research.successCount = 0
    /\ research.failureCount > 0
    /\ "synthesis" \in StagesStarted
    /\ hpc = "done"
    /\ response.value.statusCode = 200

\* The calls of getSecrets that loaded the keys, from the environment or
\* from Secrets Manager, and returned them.
Loads == {j \in 1..Len(got) : got[j].from # "cache" /\ ~got[j].threw}

\* The last successful load before call k, or 0.
LastLoad(k) ==
    IF \E j \in Loads : j < k
    THEN CHOOSE j \in Loads : j < k /\ \A h \in Loads : h < k => h <= j
    ELSE 0

\* When the cache filled by load j expires.
Expiry(j) == got[j].at + CACHE_TTL_MS

\* C25: a call of getSecrets made before the expiry of the cache, 5 minutes
\* after the last successful load, returns the value of that load without
\* loading; a call made at or after the expiry, or before any successful
\* load, performs a load; a call waiting for Secrets Manager was made on an
\* empty or expired cache; and every value returned has the four keys
\* non-empty.
C25_CacheServedUntilExpiry ==
    /\ \A k \in 1..Len(got) :
          /\ ~got[k].threw => \A key \in SecretKeys : ~Falsy(got[k].value[key])
          /\ IF LastLoad(k) # 0 /\ got[k].called < Expiry(LastLoad(k))
             THEN /\ got[k].from = "cache"
                  /\ ~got[k].threw
                  /\ got[k].value = got[LastLoad(k)].value
             ELSE got[k].from # "cache"
    /\ sm = "sending" =>
          \/ LastLoad(Len(got) + 1) = 0
          \/ called >= Expiry(LastLoad(Len(got) + 1))

\* C25 witness: a load from Secrets Manager, a call one millisecond before
\* the expiry served from the cache, and a call at the expiry that loaded
\* again.
C25_Witness ==
    /\ Len(got) = 3
    /\ got[1].from = "vault" /\ ~got[1].threw
    /\ got[2].from = "cache" /\ got[2].called = Expiry(1) - 1
    /\ got[3].from = "vault" /\ ~got[3].threw /\ got[3].called = Expiry(1)

\* C26: the environment variables are a fallback: no call of getSecrets
\* returns the values of the environment while Secrets Manager would give
\* the four keys.
C26_EnvironmentOnlyAsFallback ==
    \A k \in 1..Len(got) : got[k].from = "env" => ~got[k].obtainable

====
